---- MODULE Spec2Model ----
(***************************************************************************)
(* Model of the agentic retrieval orchestrator of legal-rag                *)
(* (src/ai-engine/core/agentic_rag.py): LegalRAGAgent, its five workflow   *)
(* nodes, its two routers, the AgentState channels of the compiled graph   *)
(* and the query() entry point.                                            *)
(*                                                                         *)
(* Text that the code inspects character by character (the question, the   *)
(* decision reply, the refined query) is a sequence of Unicode code        *)
(* points.  Text that the code only compares for equality and emptiness    *)
(* (a result's text, a web item's content) is a TLA+ string.               *)
(***************************************************************************)
EXTENDS Integers, Sequences, FiniteSets, TLC

(***************************************************************************)
(* Bounds of the exploration.                                              *)
(***************************************************************************)
\* max_iterations is drawn from 1..MaxIter
MaxIter == 3
\* node executions explored per run
MaxSteps == 8

(***************************************************************************)
(* Strings as sequences of code points.                                    *)
(***************************************************************************)
\* The simple lower-case mappings of the Unicode database str.lower() goes
\* by: <<first, last, step, delta>> maps first, first + step, ... last to
\* themselves plus delta.
LowerRanges ==
    {
      <<65, 90, 1, 32>>, <<192, 214, 1, 32>>, <<216, 222, 1, 32>>, <<256, 302, 2, 1>>,
      <<306, 310, 2, 1>>, <<313, 327, 2, 1>>, <<330, 374, 2, 1>>, <<376, 376, 1, -121>>,
      <<377, 381, 2, 1>>, <<385, 385, 1, 210>>, <<386, 388, 2, 1>>, <<390, 390, 1, 206>>,
      <<391, 391, 1, 1>>, <<393, 394, 1, 205>>, <<395, 395, 1, 1>>, <<398, 398, 1, 79>>,
      <<399, 399, 1, 202>>, <<400, 400, 1, 203>>, <<401, 401, 1, 1>>, <<403, 403, 1, 205>>,
      <<404, 404, 1, 207>>, <<406, 406, 1, 211>>, <<407, 407, 1, 209>>, <<408, 408, 1, 1>>,
      <<412, 412, 1, 211>>, <<413, 413, 1, 213>>, <<415, 415, 1, 214>>, <<416, 420, 2, 1>>,
      <<422, 422, 1, 218>>, <<423, 423, 1, 1>>, <<425, 425, 1, 218>>, <<428, 428, 1, 1>>,
      <<430, 430, 1, 218>>, <<431, 431, 1, 1>>, <<433, 434, 1, 217>>, <<435, 437, 2, 1>>,
      <<439, 439, 1, 219>>, <<440, 440, 1, 1>>, <<444, 444, 1, 1>>, <<452, 452, 1, 2>>,
      <<453, 453, 1, 1>>, <<455, 455, 1, 2>>, <<456, 456, 1, 1>>, <<458, 458, 1, 2>>,
      <<459, 475, 2, 1>>, <<478, 494, 2, 1>>, <<497, 497, 1, 2>>, <<498, 500, 2, 1>>,
      <<502, 502, 1, -97>>, <<503, 503, 1, -56>>, <<504, 542, 2, 1>>, <<544, 544, 1, -130>>,
      <<546, 562, 2, 1>>, <<570, 570, 1, 10795>>, <<571, 571, 1, 1>>, <<573, 573, 1, -163>>,
      <<574, 574, 1, 10792>>, <<577, 577, 1, 1>>, <<579, 579, 1, -195>>, <<580, 580, 1, 69>>,
      <<581, 581, 1, 71>>, <<582, 590, 2, 1>>, <<880, 882, 2, 1>>, <<886, 886, 1, 1>>,
      <<895, 895, 1, 116>>, <<902, 902, 1, 38>>, <<904, 906, 1, 37>>, <<908, 908, 1, 64>>,
      <<910, 911, 1, 63>>, <<913, 929, 1, 32>>, <<932, 939, 1, 32>>, <<975, 975, 1, 8>>,
      <<984, 1006, 2, 1>>, <<1012, 1012, 1, -60>>, <<1015, 1015, 1, 1>>, <<1017, 1017, 1, -7>>,
      <<1018, 1018, 1, 1>>, <<1021, 1023, 1, -130>>, <<1024, 1039, 1, 80>>, <<1040, 1071, 1, 32>>,
      <<1120, 1152, 2, 1>>, <<1162, 1214, 2, 1>>, <<1216, 1216, 1, 15>>, <<1217, 1229, 2, 1>>,
      <<1232, 1326, 2, 1>>, <<1329, 1366, 1, 48>>, <<4256, 4293, 1, 7264>>, <<4295, 4295, 1, 7264>>,
      <<4301, 4301, 1, 7264>>, <<5024, 5103, 1, 38864>>, <<5104, 5109, 1, 8>>, <<7312, 7354, 1, -3008>>,
      <<7357, 7359, 1, -3008>>, <<7680, 7828, 2, 1>>, <<7838, 7838, 1, -7615>>, <<7840, 7934, 2, 1>>,
      <<7944, 7951, 1, -8>>, <<7960, 7965, 1, -8>>, <<7976, 7983, 1, -8>>, <<7992, 7999, 1, -8>>,
      <<8008, 8013, 1, -8>>, <<8025, 8031, 2, -8>>, <<8040, 8047, 1, -8>>, <<8072, 8079, 1, -8>>,
      <<8088, 8095, 1, -8>>, <<8104, 8111, 1, -8>>, <<8120, 8121, 1, -8>>, <<8122, 8123, 1, -74>>,
      <<8124, 8124, 1, -9>>, <<8136, 8139, 1, -86>>, <<8140, 8140, 1, -9>>, <<8152, 8153, 1, -8>>,
      <<8154, 8155, 1, -100>>, <<8168, 8169, 1, -8>>, <<8170, 8171, 1, -112>>, <<8172, 8172, 1, -7>>,
      <<8184, 8185, 1, -128>>, <<8186, 8187, 1, -126>>, <<8188, 8188, 1, -9>>, <<8486, 8486, 1, -7517>>,
      <<8490, 8490, 1, -8383>>, <<8491, 8491, 1, -8262>>, <<8498, 8498, 1, 28>>, <<8544, 8559, 1, 16>>,
      <<8579, 8579, 1, 1>>, <<9398, 9423, 1, 26>>, <<11264, 11311, 1, 48>>, <<11360, 11360, 1, 1>>,
      <<11362, 11362, 1, -10743>>, <<11363, 11363, 1, -3814>>, <<11364, 11364, 1, -10727>>, <<11367, 11371, 2, 1>>,
      <<11373, 11373, 1, -10780>>, <<11374, 11374, 1, -10749>>, <<11375, 11375, 1, -10783>>, <<11376, 11376, 1, -10782>>,
      <<11378, 11378, 1, 1>>, <<11381, 11381, 1, 1>>, <<11390, 11391, 1, -10815>>, <<11392, 11490, 2, 1>>,
      <<11499, 11501, 2, 1>>, <<11506, 11506, 1, 1>>, <<42560, 42604, 2, 1>>, <<42624, 42650, 2, 1>>,
      <<42786, 42798, 2, 1>>, <<42802, 42862, 2, 1>>, <<42873, 42875, 2, 1>>, <<42877, 42877, 1, -35332>>,
      <<42878, 42886, 2, 1>>, <<42891, 42891, 1, 1>>, <<42893, 42893, 1, -42280>>, <<42896, 42898, 2, 1>>,
      <<42902, 42920, 2, 1>>, <<42922, 42922, 1, -42308>>, <<42923, 42923, 1, -42319>>, <<42924, 42924, 1, -42315>>,
      <<42925, 42925, 1, -42305>>, <<42926, 42926, 1, -42308>>, <<42928, 42928, 1, -42258>>, <<42929, 42929, 1, -42282>>,
      <<42930, 42930, 1, -42261>>, <<42931, 42931, 1, 928>>, <<42932, 42946, 2, 1>>, <<42948, 42948, 1, -48>>,
      <<42949, 42949, 1, -42307>>, <<42950, 42950, 1, -35384>>, <<42951, 42953, 2, 1>>, <<42960, 42960, 1, 1>>,
      <<42966, 42968, 2, 1>>, <<42997, 42997, 1, 1>>, <<65313, 65338, 1, 32>>, <<66560, 66599, 1, 40>>,
      <<66736, 66771, 1, 40>>, <<66928, 66938, 1, 39>>, <<66940, 66954, 1, 39>>, <<66956, 66962, 1, 39>>,
      <<66964, 66965, 1, 39>>, <<68736, 68786, 1, 64>>, <<71840, 71871, 1, 32>>, <<93760, 93791, 1, 32>>,
      <<125184, 125217, 1, 34>> }

\* the characters the final-sigma rule skips (Case_Ignorable), as
\* <<first, last>>
CaseIgnorable ==
    {
      <<39, 39>>, <<46, 46>>, <<58, 58>>, <<94, 94>>, <<96, 96>>, <<168, 168>>,
      <<173, 173>>, <<175, 175>>, <<180, 180>>, <<183, 184>>, <<688, 879>>, <<884, 885>>,
      <<890, 890>>, <<900, 901>>, <<903, 903>>, <<1155, 1161>>, <<1369, 1369>>, <<1375, 1375>>,
      <<1425, 1469>>, <<1471, 1471>>, <<1473, 1474>>, <<1476, 1477>>, <<1479, 1479>>, <<1524, 1524>>,
      <<1536, 1541>>, <<1552, 1562>>, <<1564, 1564>>, <<1600, 1600>>, <<1611, 1631>>, <<1648, 1648>>,
      <<1750, 1757>>, <<1759, 1768>>, <<1770, 1773>>, <<1807, 1807>>, <<1809, 1809>>, <<1840, 1866>>,
      <<1958, 1968>>, <<2027, 2037>>, <<2042, 2042>>, <<2045, 2045>>, <<2070, 2093>>, <<2137, 2139>>,
      <<2184, 2184>>, <<2192, 2193>>, <<2200, 2207>>, <<2249, 2306>>, <<2362, 2362>>, <<2364, 2364>>,
      <<2369, 2376>>, <<2381, 2381>>, <<2385, 2391>>, <<2402, 2403>>, <<2417, 2417>>, <<2433, 2433>>,
      <<2492, 2492>>, <<2497, 2500>>, <<2509, 2509>>, <<2530, 2531>>, <<2558, 2558>>, <<2561, 2562>>,
      <<2620, 2620>>, <<2625, 2626>>, <<2631, 2632>>, <<2635, 2637>>, <<2641, 2641>>, <<2672, 2673>>,
      <<2677, 2677>>, <<2689, 2690>>, <<2748, 2748>>, <<2753, 2757>>, <<2759, 2760>>, <<2765, 2765>>,
      <<2786, 2787>>, <<2810, 2815>>, <<2817, 2817>>, <<2876, 2876>>, <<2879, 2879>>, <<2881, 2884>>,
      <<2893, 2893>>, <<2901, 2902>>, <<2914, 2915>>, <<2946, 2946>>, <<3008, 3008>>, <<3021, 3021>>,
      <<3072, 3072>>, <<3076, 3076>>, <<3132, 3132>>, <<3134, 3136>>, <<3142, 3144>>, <<3146, 3149>>,
      <<3157, 3158>>, <<3170, 3171>>, <<3201, 3201>>, <<3260, 3260>>, <<3263, 3263>>, <<3270, 3270>>,
      <<3276, 3277>>, <<3298, 3299>>, <<3328, 3329>>, <<3387, 3388>>, <<3393, 3396>>, <<3405, 3405>>,
      <<3426, 3427>>, <<3457, 3457>>, <<3530, 3530>>, <<3538, 3540>>, <<3542, 3542>>, <<3633, 3633>>,
      <<3636, 3642>>, <<3654, 3662>>, <<3761, 3761>>, <<3764, 3772>>, <<3782, 3782>>, <<3784, 3789>>,
      <<3864, 3865>>, <<3893, 3893>>, <<3895, 3895>>, <<3897, 3897>>, <<3953, 3966>>, <<3968, 3972>>,
      <<3974, 3975>>, <<3981, 3991>>, <<3993, 4028>>, <<4038, 4038>>, <<4141, 4144>>, <<4146, 4151>>,
      <<4153, 4154>>, <<4157, 4158>>, <<4184, 4185>>, <<4190, 4192>>, <<4209, 4212>>, <<4226, 4226>>,
      <<4229, 4230>>, <<4237, 4237>>, <<4253, 4253>>, <<4348, 4348>>, <<4957, 4959>>, <<5906, 5908>>,
      <<5938, 5939>>, <<5970, 5971>>, <<6002, 6003>>, <<6068, 6069>>, <<6071, 6077>>, <<6086, 6086>>,
      <<6089, 6099>>, <<6103, 6103>>, <<6109, 6109>>, <<6155, 6159>>, <<6211, 6211>>, <<6277, 6278>>,
      <<6313, 6313>>, <<6432, 6434>>, <<6439, 6440>>, <<6450, 6450>>, <<6457, 6459>>, <<6679, 6680>>,
      <<6683, 6683>>, <<6742, 6742>>, <<6744, 6750>>, <<6752, 6752>>, <<6754, 6754>>, <<6757, 6764>>,
      <<6771, 6780>>, <<6783, 6783>>, <<6823, 6823>>, <<6832, 6862>>, <<6912, 6915>>, <<6964, 6964>>,
      <<6966, 6970>>, <<6972, 6972>>, <<6978, 6978>>, <<7019, 7027>>, <<7040, 7041>>, <<7074, 7077>>,
      <<7080, 7081>>, <<7083, 7085>>, <<7142, 7142>>, <<7144, 7145>>, <<7149, 7149>>, <<7151, 7153>>,
      <<7212, 7219>>, <<7222, 7223>>, <<7288, 7293>>, <<7376, 7378>>, <<7380, 7392>>, <<7394, 7400>>,
      <<7405, 7405>>, <<7412, 7412>>, <<7416, 7417>>, <<7468, 7530>>, <<7544, 7544>>, <<7579, 7679>>,
      <<8125, 8125>>, <<8127, 8129>>, <<8141, 8143>>, <<8157, 8159>>, <<8173, 8175>>, <<8189, 8190>>,
      <<8203, 8207>>, <<8216, 8217>>, <<8228, 8228>>, <<8231, 8231>>, <<8234, 8238>>, <<8288, 8292>>,
      <<8294, 8303>>, <<8305, 8305>>, <<8319, 8319>>, <<8336, 8348>>, <<8400, 8432>>, <<11388, 11389>>,
      <<11503, 11505>>, <<11631, 11631>>, <<11647, 11647>>, <<11744, 11775>>, <<11823, 11823>>, <<12293, 12293>>,
      <<12330, 12333>>, <<12337, 12341>>, <<12347, 12347>>, <<12441, 12446>>, <<12540, 12542>>, <<40981, 40981>>,
      <<42232, 42237>>, <<42508, 42508>>, <<42607, 42610>>, <<42612, 42621>>, <<42623, 42623>>, <<42652, 42655>>,
      <<42736, 42737>>, <<42752, 42785>>, <<42864, 42864>>, <<42888, 42890>>, <<42994, 42996>>, <<43000, 43001>>,
      <<43010, 43010>>, <<43014, 43014>>, <<43019, 43019>>, <<43045, 43046>>, <<43052, 43052>>, <<43204, 43205>>,
      <<43232, 43249>>, <<43263, 43263>>, <<43302, 43309>>, <<43335, 43345>>, <<43392, 43394>>, <<43443, 43443>>,
      <<43446, 43449>>, <<43452, 43453>>, <<43471, 43471>>, <<43493, 43494>>, <<43561, 43566>>, <<43569, 43570>>,
      <<43573, 43574>>, <<43587, 43587>>, <<43596, 43596>>, <<43632, 43632>>, <<43644, 43644>>, <<43696, 43696>>,
      <<43698, 43700>>, <<43703, 43704>>, <<43710, 43711>>, <<43713, 43713>>, <<43741, 43741>>, <<43756, 43757>>,
      <<43763, 43764>>, <<43766, 43766>>, <<43867, 43871>>, <<43881, 43883>>, <<44005, 44005>>, <<44008, 44008>>,
      <<44013, 44013>>, <<64286, 64286>>, <<64434, 64450>>, <<65024, 65039>>, <<65043, 65043>>, <<65056, 65071>>,
      <<65106, 65106>>, <<65109, 65109>>, <<65279, 65279>>, <<65287, 65287>>, <<65294, 65294>>, <<65306, 65306>>,
      <<65342, 65342>>, <<65344, 65344>>, <<65392, 65392>>, <<65438, 65439>>, <<65507, 65507>>, <<65529, 65531>>,
      <<66045, 66045>>, <<66272, 66272>>, <<66422, 66426>>, <<67456, 67461>>, <<67463, 67504>>, <<67506, 67514>>,
      <<68097, 68099>>, <<68101, 68102>>, <<68108, 68111>>, <<68152, 68154>>, <<68159, 68159>>, <<68325, 68326>>,
      <<68900, 68903>>, <<69291, 69292>>, <<69446, 69456>>, <<69506, 69509>>, <<69633, 69633>>, <<69688, 69702>>,
      <<69744, 69744>>, <<69747, 69748>>, <<69759, 69761>>, <<69811, 69814>>, <<69817, 69818>>, <<69821, 69821>>,
      <<69826, 69826>>, <<69837, 69837>>, <<69888, 69890>>, <<69927, 69931>>, <<69933, 69940>>, <<70003, 70003>>,
      <<70016, 70017>>, <<70070, 70078>>, <<70089, 70092>>, <<70095, 70095>>, <<70191, 70193>>, <<70196, 70196>>,
      <<70198, 70199>>, <<70206, 70206>>, <<70367, 70367>>, <<70371, 70378>>, <<70400, 70401>>, <<70459, 70460>>,
      <<70464, 70464>>, <<70502, 70508>>, <<70512, 70516>>, <<70712, 70719>>, <<70722, 70724>>, <<70726, 70726>>,
      <<70750, 70750>>, <<70835, 70840>>, <<70842, 70842>>, <<70847, 70848>>, <<70850, 70851>>, <<71090, 71093>>,
      <<71100, 71101>>, <<71103, 71104>>, <<71132, 71133>>, <<71219, 71226>>, <<71229, 71229>>, <<71231, 71232>>,
      <<71339, 71339>>, <<71341, 71341>>, <<71344, 71349>>, <<71351, 71351>>, <<71453, 71455>>, <<71458, 71461>>,
      <<71463, 71467>>, <<71727, 71735>>, <<71737, 71738>>, <<71995, 71996>>, <<71998, 71998>>, <<72003, 72003>>,
      <<72148, 72151>>, <<72154, 72155>>, <<72160, 72160>>, <<72193, 72202>>, <<72243, 72248>>, <<72251, 72254>>,
      <<72263, 72263>>, <<72273, 72278>>, <<72281, 72283>>, <<72330, 72342>>, <<72344, 72345>>, <<72752, 72758>>,
      <<72760, 72765>>, <<72767, 72767>>, <<72850, 72871>>, <<72874, 72880>>, <<72882, 72883>>, <<72885, 72886>>,
      <<73009, 73014>>, <<73018, 73018>>, <<73020, 73021>>, <<73023, 73029>>, <<73031, 73031>>, <<73104, 73105>>,
      <<73109, 73109>>, <<73111, 73111>>, <<73459, 73460>>, <<78896, 78904>>, <<92912, 92916>>, <<92976, 92982>>,
      <<92992, 92995>>, <<94031, 94031>>, <<94095, 94111>>, <<94176, 94177>>, <<94179, 94180>>, <<110576, 110579>>,
      <<110581, 110587>>, <<110589, 110590>>, <<113821, 113822>>, <<113824, 113827>>, <<118528, 118573>>, <<118576, 118598>>,
      <<119143, 119145>>, <<119155, 119170>>, <<119173, 119179>>, <<119210, 119213>>, <<119362, 119364>>, <<121344, 121398>>,
      <<121403, 121452>>, <<121461, 121461>>, <<121476, 121476>>, <<121499, 121503>>, <<121505, 121519>>, <<122880, 122886>>,
      <<122888, 122904>>, <<122907, 122913>>, <<122915, 122916>>, <<122918, 122922>>, <<123184, 123197>>, <<123566, 123566>>,
      <<123628, 123631>>, <<125136, 125142>>, <<125252, 125259>>, <<127995, 127999>>, <<917505, 917505>>, <<917536, 917631>>,
      <<917760, 917999>> }

\* the characters the final-sigma rule takes for letters with case (Cased),
\* as <<first, last>>; the rule tests it on characters it did not skip
Cased ==
    {
      <<65, 90>>, <<97, 122>>, <<170, 170>>, <<181, 181>>, <<186, 186>>, <<192, 214>>,
      <<216, 246>>, <<248, 442>>, <<444, 447>>, <<452, 659>>, <<661, 687>>, <<880, 883>>,
      <<886, 887>>, <<891, 893>>, <<895, 895>>, <<902, 902>>, <<904, 906>>, <<908, 908>>,
      <<910, 929>>, <<931, 1013>>, <<1015, 1153>>, <<1162, 1327>>, <<1329, 1366>>, <<1376, 1416>>,
      <<4256, 4293>>, <<4295, 4295>>, <<4301, 4301>>, <<4304, 4346>>, <<4349, 4351>>, <<5024, 5109>>,
      <<5112, 5117>>, <<7296, 7304>>, <<7312, 7354>>, <<7357, 7359>>, <<7424, 7467>>, <<7531, 7543>>,
      <<7545, 7578>>, <<7680, 7957>>, <<7960, 7965>>, <<7968, 8005>>, <<8008, 8013>>, <<8016, 8023>>,
      <<8025, 8025>>, <<8027, 8027>>, <<8029, 8029>>, <<8031, 8061>>, <<8064, 8116>>, <<8118, 8124>>,
      <<8126, 8126>>, <<8130, 8132>>, <<8134, 8140>>, <<8144, 8147>>, <<8150, 8155>>, <<8160, 8172>>,
      <<8178, 8180>>, <<8182, 8188>>, <<8450, 8450>>, <<8455, 8455>>, <<8458, 8467>>, <<8469, 8469>>,
      <<8473, 8477>>, <<8484, 8484>>, <<8486, 8486>>, <<8488, 8488>>, <<8490, 8493>>, <<8495, 8500>>,
      <<8505, 8505>>, <<8508, 8511>>, <<8517, 8521>>, <<8526, 8526>>, <<8544, 8575>>, <<8579, 8580>>,
      <<9398, 9449>>, <<11264, 11387>>, <<11390, 11492>>, <<11499, 11502>>, <<11506, 11507>>, <<11520, 11557>>,
      <<11559, 11559>>, <<11565, 11565>>, <<42560, 42605>>, <<42624, 42651>>, <<42786, 42863>>, <<42865, 42887>>,
      <<42891, 42894>>, <<42896, 42954>>, <<42960, 42961>>, <<42963, 42963>>, <<42965, 42969>>, <<42997, 42998>>,
      <<43002, 43002>>, <<43824, 43866>>, <<43872, 43880>>, <<43888, 43967>>, <<64256, 64262>>, <<64275, 64279>>,
      <<65313, 65338>>, <<65345, 65370>>, <<66560, 66639>>, <<66736, 66771>>, <<66776, 66811>>, <<66928, 66938>>,
      <<66940, 66954>>, <<66956, 66962>>, <<66964, 66965>>, <<66967, 66977>>, <<66979, 66993>>, <<66995, 67001>>,
      <<67003, 67004>>, <<68736, 68786>>, <<68800, 68850>>, <<71840, 71903>>, <<93760, 93823>>, <<119808, 119892>>,
      <<119894, 119964>>, <<119966, 119967>>, <<119970, 119970>>, <<119973, 119974>>, <<119977, 119980>>, <<119982, 119993>>,
      <<119995, 119995>>, <<119997, 120003>>, <<120005, 120069>>, <<120071, 120074>>, <<120077, 120084>>, <<120086, 120092>>,
      <<120094, 120121>>, <<120123, 120126>>, <<120128, 120132>>, <<120134, 120134>>, <<120138, 120144>>, <<120146, 120485>>,
      <<120488, 120512>>, <<120514, 120538>>, <<120540, 120570>>, <<120572, 120596>>, <<120598, 120628>>, <<120630, 120654>>,
      <<120656, 120686>>, <<120688, 120712>>, <<120714, 120744>>, <<120746, 120770>>, <<120772, 120779>>, <<122624, 122633>>,
      <<122635, 122654>>, <<125184, 125251>>, <<127280, 127305>>, <<127312, 127337>>, <<127344, 127369>> }

InRanges(c, ranges) == \E r \in ranges : c >= r[1] /\ c <= r[2]

\* str.lower() on a string of the one code point c.  U+0130 lowers to two
\* code points; a capital sigma on its own to the small sigma.
LowerChar(c) ==
    IF c < 192 THEN (IF c >= 65 /\ c <= 90 THEN <<c + 32>> ELSE <<c>>)
    ELSE IF c = 304 THEN <<105, 775>>
    ELSE IF c = 931 THEN <<963>>
    ELSE IF \E r \in LowerRanges : c >= r[1] /\ c <= r[2] /\ (c - r[1]) % r[3] = 0
    THEN LET r == CHOOSE r \in LowerRanges :
                     c >= r[1] /\ c <= r[2] /\ (c - r[1]) % r[3] = 0
         IN  <<c + r[4]>>
    ELSE <<c>>

\* the lower case of the capital sigma at s[i]: the final sigma when a
\* cased letter precedes it and none follows it, case-ignorable characters
\* skipped on both sides
handle_capital_sigma(s, i) ==
    LET before == {j \in 1..(i - 1) : ~InRanges(s[j], CaseIgnorable)}
        after == {j \in (i + 1)..Len(s) : ~InRanges(s[j], CaseIgnorable)}
        last == CHOOSE j \in before : \A k \in before : k <= j
        next == CHOOSE j \in after : \A k \in after : j <= k
        final_sigma == /\ before # {}
                       /\ InRanges(s[last], Cased)
                       /\ (after = {} \/ ~InRanges(s[next], Cased))
    IN  IF final_sigma THEN 962 ELSE 963

\* str.lower() if it left every character as it is
Lower_identity(s) == s

RECURSIVE do_lower(_, _)
do_lower(s, i) ==
    IF i > Len(s) THEN <<>>
    ELSE (IF s[i] = 931 THEN <<handle_capital_sigma(s, i)>> ELSE LowerChar(s[i]))
         \o do_lower(s, i + 1)

\* str.lower()
Lower(s) == do_lower(s, 1)

\* the Python "in" operator on strings: sub occurs in s at some offset
Contains(sub, s) ==
    \E k \in 0..(Len(s) - Len(sub)) :
        \A i \in 1..Len(sub) : s[k + i] = sub[i]

\* the characters str.strip() removes: every c with chr(c).isspace()
Whitespace == {9, 10, 11, 12, 13, 28, 29, 30, 31, 32, 133, 160, 5760,
               8232, 8233, 8239, 8287, 12288} \cup (8192..8202)

RECURSIVE LStrip(_, _)
LStrip(s, chars) ==
    IF s # <<>> /\ Head(s) \in chars THEN LStrip(Tail(s), chars) ELSE s

RECURSIVE RStrip(_, _)
RStrip(s, chars) ==
    IF s # <<>> /\ s[Len(s)] \in chars
    THEN RStrip(SubSeq(s, 1, Len(s) - 1), chars) ELSE s

\* str.strip() and str.strip(chars)
Strip(s) == RStrip(LStrip(s, Whitespace), Whitespace)
StripChars(s, chars) == RStrip(LStrip(s, chars), chars)

(***************************************************************************)
(* _contains_specific_data_query                                           *)
(***************************************************************************)
keywords ==
    << <<98, 97, 111, 32, 110, 104, 105, 234, 117>>,
       <<109, 7913, 99>>,
       <<116, 7927, 32, 108, 7879>>,
       <<37>>,
       <<112, 104, 7847, 110, 32, 116, 114, 259, 109>>,
       <<115, 7889, 32, 116, 105, 7873, 110>>,
       <<116, 105, 7873, 110>>,
       <<108, 432, 417, 110, 103>>,
       <<110, 103, 224, 121>>,
       <<116, 104, 225, 110, 103>>,
       <<110, 259, 109>>,
       <<104, 105, 7879, 110, 32, 110, 97, 121>>,
       <<109, 7899, 105, 32, 110, 104, 7845, 116>>,
       <<50, 48, 50, 52>>,
       <<50, 48, 50, 53>>,
       <<99, 7909, 32, 116, 104, 7875>>,
       <<99, 104, 237, 110, 104, 32, 120, 225, 99>>,
       <<273, 250, 110, 103>> >>

\* the keyword test without question.lower()
_contains_specific_data_query_case_sensitive(question) ==
    \E k \in 1..Len(keywords) : Contains(keywords[k], question)

_contains_specific_data_query(question) ==
    LET question_lower == Lower(question)
    IN  \E k \in 1..Len(keywords) : Contains(keywords[k], question_lower)

(***************************************************************************)
(* Data the collaborators exchange with the agent.                         *)
(***************************************************************************)
\* The lists LegalSearch.search returns: nothing, one result, the same text
\* twice, two texts, two other texts, a result without text before one with.
\* Of a result the agent reads only r.get("text", "").
ResultLists ==
    { <<>>,
      << [text |-> "a"] >>,
      << [text |-> "a"], [text |-> "a"] >>,
      << [text |-> "a"], [text |-> "b"] >>,
      << [text |-> "b"], [text |-> "c"] >>,
      << [text |-> ""], [text |-> "c"] >> }

\* The lists LegalWebSearch.search_vietnamese_law returns: nothing (also
\* when the service fails), one article, two articles, two articles with
\* the same content.  search() gives every item it builds the type
\* "article".  Of a result the agent reads r.get("content", "") when
\* merging and r.get("type") when answering.
WebResultLists ==
    { <<>>,
      << [type |-> "article", content |-> "w"] >>,
      << [type |-> "article", content |-> "v"], [type |-> "article", content |-> "w"] >>,
      << [type |-> "article", content |-> "w"], [type |-> "article", content |-> "w"] >> }

\* questions: "hop dong" (no keyword) and "MUC phat" spelt with U-horn-acute
\* and a-dot-below (a keyword, in upper case)
Questions == { <<104, 111, 112, 32, 100, 111, 110, 103>>,
               <<77, 7912, 67, 32, 112, 104, 7841, 116>> }

\* outcome of one call to a collaborator: a value, or an exception
Ok(v) == [ok |-> TRUE, value |-> v]
Failure == [ok |-> FALSE, value |-> <<>>]

\* response.content of the decision call: "refine", " Web_Search\n",
\* "search", "answer", "REFINE web"
DecisionReplies == { <<114, 101, 102, 105, 110, 101>>,
                     <<32, 87, 101, 98, 95, 83, 101, 97, 114, 99, 104, 10>>,
                     <<115, 101, 97, 114, 99, 104>>,
                     <<97, 110, 115, 119, 101, 114>>,
                     <<82, 69, 70, 73, 78, 69, 32, 119, 101, 98>> }

\* response.content of the refine call: ' "'luong'" \n'
RefineReplies == { <<32, 34, 39, 108, 117, 111, 110, 103, 39, 34, 32, 10>> }

DecisionOutcomes == {Ok(r) : r \in DecisionReplies} \cup {Failure}
RefineOutcomes == {Ok(r) : r \in RefineReplies} \cup {Failure}
SearchOutcomes == {Ok(l) : l \in ResultLists} \cup {Failure}
WebOutcomes == {Ok(l) : l \in WebResultLists} \cup {Failure}
GenerationOutcomes == {Ok("generated answer"), Failure}

(***************************************************************************)
(* AgentState and the channels of the compiled workflow.                   *)
(***************************************************************************)
\* Python's None in AgentState.answer
None == "None"

\* the fixed answer of _generate_answer when there is nothing to ground on
NOT_FOUND_ANSWER == "Xin loi, toi khong tim thay thong tin lien quan den cau hoi cua ban."
\* the answer of _generate_answer when the generation call raises
ERROR_ANSWER == "Xin loi, da xay ra loi khi tao cau tra loi: {e}"

\* operator.add on two lists, the reducer of search_results and web_results
add(a, b) == a \o b

\* the channels if iteration were annotated with the add reducer as well
AgentState_iteration_add(channels, returned) ==
    [returned EXCEPT
        !.search_results = channels.search_results \o returned.search_results,
        !.web_results = channels.web_results \o returned.web_results,
        !.iteration = channels.iteration + returned.iteration]

\* One superstep of the compiled StateGraph: every key of the dict a node
\* returns is written to its channel.  A plain key keeps the last value
\* written; a key annotated with a reducer becomes
\* reducer(current value, written value).
AgentState(channels, returned) ==
    [returned EXCEPT
        !.search_results = add(channels.search_results, returned.search_results),
        !.web_results = add(channels.web_results, returned.web_results)]

\* the dict query() passes to workflow.invoke
\* the dict of a run that is allowed no iteration at all
initial_state_no_iterations(self, question) ==
    [question |-> question,
     query |-> question,
     search_results |-> <<>>,
     web_results |-> <<>>,
     answer |-> None,
     iteration |-> 0,
     max_iterations |-> 0,
     needs_refinement |-> FALSE,
     should_continue |-> TRUE,
     use_web_search |-> FALSE]

initial_state(self, question) ==
    [question |-> question,
     query |-> question,
     search_results |-> <<>>,
     web_results |-> <<>>,
     answer |-> None,
     iteration |-> 0,
     max_iterations |-> self.max_iterations,
     needs_refinement |-> FALSE,
     should_continue |-> TRUE,
     use_web_search |-> FALSE]

(***************************************************************************)
(* PromptTemplates.get_decision_prompt                                     *)
(***************************************************************************)
\* The provider class of this repository reads its local current_year
\* before assigning it, so every call raises UnboundLocalError.  A provider
\* object passed to LegalRAGAgent(prompt_templates=...) returns a prompt.
get_decision_prompt(prompt_templates) ==
    IF prompt_templates = "PromptTemplates" THEN "UnboundLocalError"
    ELSE "prompt"

(***************************************************************************)
(* The nodes.  Each takes the state dict read from the channels and the    *)
(* outcome of the one collaborator call it may make, and yields            *)
(*   raised   - an exception left the node                                 *)
(*   state    - the dict the node returns                                  *)
(*   invoked  - the number of collaborator calls it issued                 *)
(*   argument - the results list handed to the generation call             *)
(***************************************************************************)
Returned(st, n) == [raised |-> FALSE, state |-> st, invoked |-> n, argument |-> <<>>]
Raised(st) == [raised |-> TRUE, state |-> st, invoked |-> 0, argument |-> <<>>]

\* the substrings _decide_action looks for: "refine", "web", "search"
REFINE == <<114, 101, 102, 105, 110, 101>>
WEB == <<119, 101, 98>>
SEARCH == <<115, 101, 97, 114, 99, 104>>

\* iteration threshold of the web-search fallback
FALLBACK_ITERATION == 2

\* _decide_action if it asked the decision capability before looking at
\* iteration and the accumulated results
_decide_action_asking_first(self, state, llm) ==
    LET question == state.question
        iteration == state.iteration
        search_results == state.search_results
        web_results == state.web_results
        decision == Lower(Strip(llm.value))
    IN
    IF get_decision_prompt(self.prompt_templates) = "UnboundLocalError"
    THEN Raised(state)
    ELSE IF iteration >= state.max_iterations
    THEN Returned([state EXCEPT !.should_continue = FALSE], 1)
    ELSE IF search_results = <<>> /\ web_results = <<>>
    THEN Returned([state EXCEPT !.should_continue = TRUE,
                                !.needs_refinement = FALSE,
                                !.use_web_search = FALSE], 1)
    ELSE IF /\ self.enable_web_search
            /\ iteration >= FALLBACK_ITERATION
            /\ web_results = <<>>
            /\ _contains_specific_data_query(question)
    THEN Returned([state EXCEPT !.needs_refinement = FALSE,
                                !.should_continue = TRUE,
                                !.use_web_search = TRUE], 1)
    ELSE IF ~llm.ok
    THEN Returned([state EXCEPT !.should_continue = FALSE,
                                !.use_web_search = FALSE], 1)
    ELSE IF Contains(REFINE, decision)
    THEN Returned([state EXCEPT !.needs_refinement = TRUE,
                                !.should_continue = TRUE,
                                !.use_web_search = FALSE], 1)
    ELSE IF Contains(WEB, decision) /\ self.enable_web_search
    THEN Returned([state EXCEPT !.needs_refinement = FALSE,
                                !.should_continue = TRUE,
                                !.use_web_search = TRUE], 1)
    ELSE IF Contains(SEARCH, decision)
    THEN Returned([state EXCEPT !.needs_refinement = FALSE,
                                !.should_continue = TRUE,
                                !.use_web_search = FALSE], 1)
    ELSE Returned([state EXCEPT !.should_continue = FALSE,
                                !.use_web_search = FALSE], 1)

\* _decide_action if the "refine" branch left use_web_search as it was
_decide_action_keeping_web_flag(self, state, llm) ==
    LET question == state.question
        iteration == state.iteration
        search_results == state.search_results
        web_results == state.web_results
        decision == Lower(Strip(llm.value))
    IN
    IF iteration >= state.max_iterations
    THEN Returned([state EXCEPT !.should_continue = FALSE], 0)
    ELSE IF search_results = <<>> /\ web_results = <<>>
    THEN Returned([state EXCEPT !.should_continue = TRUE,
                                !.needs_refinement = FALSE,
                                !.use_web_search = FALSE], 0)
    ELSE IF /\ self.enable_web_search
            /\ iteration >= FALLBACK_ITERATION
            /\ web_results = <<>>
            /\ _contains_specific_data_query(question)
    THEN Returned([state EXCEPT !.needs_refinement = FALSE,
                                !.should_continue = TRUE,
                                !.use_web_search = TRUE], 0)
    ELSE IF get_decision_prompt(self.prompt_templates) = "UnboundLocalError"
    THEN Raised(state)
    ELSE IF ~llm.ok
    THEN Returned([state EXCEPT !.should_continue = FALSE,
                                !.use_web_search = FALSE], 1)
    ELSE IF Contains(REFINE, decision)
    THEN Returned([state EXCEPT !.needs_refinement = TRUE,
                                !.should_continue = TRUE], 1)
    ELSE IF Contains(WEB, decision) /\ self.enable_web_search
    THEN Returned([state EXCEPT !.needs_refinement = FALSE,
                                !.should_continue = TRUE,
                                !.use_web_search = TRUE], 1)
    ELSE IF Contains(SEARCH, decision)
    THEN Returned([state EXCEPT !.needs_refinement = FALSE,
                                !.should_continue = TRUE,
                                !.use_web_search = FALSE], 1)
    ELSE Returned([state EXCEPT !.should_continue = FALSE,
                                !.use_web_search = FALSE], 1)

\* the try block of _decide_action: the reply of llm.invoke is parsed, or
\* the exception handled, with the agent's fields as they are by then
parse_decision(self, state, llm) ==
    LET search_results == state.search_results
        web_results == state.web_results
        decision == Lower(Strip(llm.value))
    IN
    IF ~llm.ok
    THEN IF search_results # <<>> \/ web_results # <<>>
         THEN Returned([state EXCEPT !.should_continue = FALSE,
                                     !.use_web_search = FALSE], 1)
         ELSE Returned([state EXCEPT !.should_continue = TRUE,
                                     !.needs_refinement = FALSE,
                                     !.use_web_search = FALSE], 1)
    ELSE IF Contains(REFINE, decision)
    THEN Returned([state EXCEPT !.needs_refinement = TRUE,
                                !.should_continue = TRUE,
                                !.use_web_search = FALSE], 1)
    ELSE IF Contains(WEB, decision) /\ self.enable_web_search
    THEN Returned([state EXCEPT !.needs_refinement = FALSE,
                                !.should_continue = TRUE,
                                !.use_web_search = TRUE], 1)
    ELSE IF Contains(SEARCH, decision)
    THEN Returned([state EXCEPT !.needs_refinement = FALSE,
                                !.should_continue = TRUE,
                                !.use_web_search = FALSE], 1)
    ELSE Returned([state EXCEPT !.should_continue = FALSE,
                                !.use_web_search = FALSE], 1)

\* _decide_action when nothing else runs between its first line and its
\* last: self is the agent throughout
_decide_action(self, state, llm) ==
    LET question == state.question
        iteration == state.iteration
        search_results == state.search_results
        web_results == state.web_results
    IN
    IF iteration >= state.max_iterations
    THEN Returned([state EXCEPT !.should_continue = FALSE], 0)
    ELSE IF search_results = <<>> /\ web_results = <<>>
    THEN Returned([state EXCEPT !.should_continue = TRUE,
                                !.needs_refinement = FALSE,
                                !.use_web_search = FALSE], 0)
    ELSE IF /\ self.enable_web_search
            /\ iteration >= FALLBACK_ITERATION
            /\ web_results = <<>>
            /\ _contains_specific_data_query(question)
    THEN Returned([state EXCEPT !.needs_refinement = FALSE,
                                !.should_continue = TRUE,
                                !.use_web_search = TRUE], 0)
    ELSE IF get_decision_prompt(self.prompt_templates) = "UnboundLocalError"
    THEN Raised(state)
    ELSE parse_decision(self, state, llm)

_refine_query(self, state, llm) ==
    LET current_query == state.query
        refined_query == StripChars(StripChars(Strip(llm.value), {34}), {39})
    IN
    IF llm.ok
    THEN Returned([state EXCEPT !.query = refined_query], 1)
    ELSE Returned([state EXCEPT !.query = current_query], 1)

\* the deduplicating loop if it inserted each new result right after the
\* existing ones instead of appending it: new results end up in reverse order
RECURSIVE append_new_reversed(_, _, _, _)
append_new_reversed(merged, seen, new_results, key) ==
    IF new_results = <<>> THEN merged
    ELSE LET result == Head(new_results)
             k == result[key]
         IN  IF k # "" /\ k \notin seen
             THEN Append(append_new_reversed(merged, seen \cup {k},
                                             Tail(new_results), key), result)
             ELSE append_new_reversed(merged, seen, Tail(new_results), key)

\* the deduplicating loop of _search and _search_web: walk the new results
\* in order, append each one whose key is non-empty and not seen yet
RECURSIVE append_new(_, _, _, _)
append_new(merged, seen, new_results, key) ==
    IF new_results = <<>> THEN merged
    ELSE LET result == Head(new_results)
             k == result[key]
         IN  IF k # "" /\ k \notin seen
             THEN append_new(Append(merged, result), seen \cup {k},
                             Tail(new_results), key)
             ELSE append_new(merged, seen, Tail(new_results), key)

merge_results(existing, new_results, key) ==
    IF existing = <<>>
    THEN new_results
    ELSE append_new(existing,
                    {existing[i][key] : i \in 1..Len(existing)},
                    new_results, key)

\* the internal search if a call counted as an iteration only when it
\* lengthened the accumulated list
_search_counting_new_only(self, state, out) ==
    LET iteration == state.iteration
        existing_results == state.search_results
        all_results == merge_results(existing_results, out.value, "text")
    IN
    IF out.ok
    THEN Returned([state EXCEPT
                     !.search_results = all_results,
                     !.iteration = IF Len(all_results) > Len(existing_results)
                                   THEN iteration + 1 ELSE iteration], 1)
    ELSE Returned([state EXCEPT !.search_results = existing_results], 1)

_search(self, state, out) ==
    LET iteration == state.iteration
        existing_results == state.search_results
    IN
    IF out.ok
    THEN Returned([state EXCEPT
                     !.search_results = merge_results(existing_results, out.value, "text"),
                     !.iteration = iteration + 1], 1)
    ELSE Returned([state EXCEPT !.search_results = existing_results], 1)

\* the web search if a successful call did not count as an iteration
_search_web_without_increment(self, state, out) ==
    LET existing_web_results == state.web_results
    IN
    IF ~self.web_search \/ ~self.enable_web_search
    THEN Returned(state, 0)
    ELSE IF out.ok
    THEN Returned([state EXCEPT
                     !.web_results = merge_results(existing_web_results, out.value, "content")], 1)
    ELSE Returned([state EXCEPT !.web_results = existing_web_results], 1)

\* the web search if it tested only whether the capability exists, not the
\* agent's enable_web_search flag
_search_web_ignoring_flag(self, state, out) ==
    LET iteration == state.iteration
        existing_web_results == state.web_results
    IN
    IF ~self.web_search
    THEN Returned(state, 0)
    ELSE IF out.ok
    THEN Returned([state EXCEPT
                     !.web_results = merge_results(existing_web_results, out.value, "content"),
                     !.iteration = iteration + 1], 1)
    ELSE Returned([state EXCEPT !.web_results = existing_web_results], 1)

\* _search_web from the reply of search_vietnamese_law on: the merge and
\* the iteration count, or the except branch
merged_web_results(state, out) ==
    LET iteration == state.iteration
        existing_web_results == state.web_results
    IN
    IF out.ok
    THEN Returned([state EXCEPT
                     !.web_results = merge_results(existing_web_results, out.value, "content"),
                     !.iteration = iteration + 1], 1)
    ELSE Returned([state EXCEPT !.web_results = existing_web_results], 1)

_search_web(self, state, out) ==
    IF ~self.web_search \/ ~self.enable_web_search
    THEN Returned(state, 0)
    ELSE merged_web_results(state, out)

\* the copy of an internal result tagged for grounding
internal_copy(r) ==
    [source_type |-> "internal", source |-> "internal", header |-> "", body |-> r.text]

\* a web result converted to the internal format: the text is a header
\* line followed by the content
web_article(r) ==
    [source_type |-> "web", source |-> "web", header |-> "[Nguon web: title]", body |-> r.content]
web_answer(r) ==
    [source_type |-> "web", source |-> "web_summary", header |-> "[Tom tat tu Web Search]", body |-> r.content]

RECURSIVE convert_web(_)
convert_web(web_results) ==
    IF web_results = <<>> THEN <<>>
    ELSE LET r == Head(web_results)
         IN  IF r.type = "article" THEN <<web_article(r)>> \o convert_web(Tail(web_results))
             ELSE IF r.type = "answer" THEN <<web_answer(r)>> \o convert_web(Tail(web_results))
             ELSE convert_web(Tail(web_results))

\* the grounding list if the web results were left out of it
all_results_internal_only(state) ==
    [i \in 1..Len(state.search_results) |-> internal_copy(state.search_results[i])]

all_results(state) ==
    [i \in 1..Len(state.search_results) |-> internal_copy(state.search_results[i])]
    \o convert_web(state.web_results)

_generate_answer(self, state, out) ==
    IF all_results(state) = <<>>
    THEN Returned([state EXCEPT !.answer = NOT_FOUND_ANSWER], 0)
    ELSE [raised |-> FALSE,
          state |-> [state EXCEPT !.answer = IF out.ok THEN out.value ELSE ERROR_ANSWER],
          invoked |-> 1,
          argument |-> all_results(state)]

(***************************************************************************)
(* The routers and the edges of _build_workflow.                           *)
(***************************************************************************)
\* the router if it never ended a run that has no results
_route_after_decide_always_answer(state) ==
    IF ~state.should_continue THEN "answer"
    ELSE IF state.needs_refinement THEN "refine"
    ELSE IF state.use_web_search THEN "web_search"
    ELSE "search"

\* the router if it looked at needs_refinement before should_continue
_route_after_decide_refine_first(state) ==
    IF state.needs_refinement THEN "refine"
    ELSE IF ~state.should_continue
    THEN IF state.search_results # <<>> \/ state.web_results # <<>>
         THEN "answer" ELSE "end"
    ELSE IF state.use_web_search THEN "web_search"
    ELSE "search"

_route_after_decide(state) ==
    IF ~state.should_continue
    THEN IF state.search_results # <<>> \/ state.web_results # <<>>
         THEN "answer" ELSE "end"
    ELSE IF state.needs_refinement THEN "refine"
    ELSE IF state.use_web_search THEN "web_search"
    ELSE "search"

\* the router if web results counted as results
_route_after_search_any_results(state) ==
    LET any == state.search_results # <<>> \/ state.web_results # <<>>
    IN  IF state.iteration >= state.max_iterations
        THEN IF any THEN "answer" ELSE "end"
        ELSE IF ~any THEN "end"
        ELSE "continue"

\* the router if a run that holds web results went straight to the answer
_route_after_search_web_first(state) ==
    IF state.web_results # <<>> THEN "answer"
    ELSE IF state.iteration >= state.max_iterations
    THEN IF state.search_results # <<>> THEN "answer" ELSE "end"
    ELSE IF state.search_results = <<>> THEN "end"
    ELSE "continue"

\* the router if it allowed a run one iteration more than max_iterations
_route_after_search_one_more(state) ==
    IF state.iteration > state.max_iterations
    THEN IF state.search_results # <<>> THEN "answer" ELSE "end"
    ELSE IF state.search_results = <<>> THEN "end"
    ELSE "continue"

_route_after_search(state) ==
    IF state.iteration >= state.max_iterations
    THEN IF state.search_results # <<>> THEN "answer" ELSE "end"
    ELSE IF state.search_results = <<>> THEN "end"
    ELSE "continue"

END == "END"

\* the path map of decide_action if "search" led to search_web
decide_edges_search_to_web(route) ==
    CASE route = "refine" -> "refine_query"
      [] route = "search" -> "search_web"
      [] route = "web_search" -> "search_web"
      [] route = "answer" -> "generate_answer"
      [] route = "end" -> END

\* the path maps of the two add_conditional_edges calls
decide_edges(route) ==
    CASE route = "refine" -> "refine_query"
      [] route = "search" -> "search"
      [] route = "web_search" -> "search_web"
      [] route = "answer" -> "generate_answer"
      [] route = "end" -> END

search_edges(route) ==
    CASE route = "continue" -> "decide_action"
      [] route = "answer" -> "generate_answer"
      [] route = "end" -> END

\* the workflow if generate_answer led back to decide_action
_build_workflow_loop(node, state) ==
    CASE node = "decide_action" -> decide_edges(_route_after_decide(state))
      [] node = "refine_query" -> "search"
      [] node = "search" -> search_edges(_route_after_search(state))
      [] node = "search_web" -> search_edges(_route_after_search(state))
      [] node = "generate_answer" -> "decide_action"

\* the node that runs after `node` has returned and its writes are applied
_build_workflow(node, state) ==
    CASE node = "decide_action" -> decide_edges(_route_after_decide(state))
      [] node = "refine_query" -> "search"
      [] node = "search" -> search_edges(_route_after_search(state))
      [] node = "search_web" -> search_edges(_route_after_search(state))
      [] node = "generate_answer" -> END

(***************************************************************************)
(* State.                                                                  *)
(*   agent  - the fields of the LegalRAGAgent instance                     *)
(*   state  - the AgentState held by the workflow's channels               *)
(*   pc     - "new" (constructed), "idle" (initialized), the node about to *)
(*            run, END, "returned" (query() returned) or "raised" (an      *)
(*            exception left query())                                      *)
(*   calls  - calls issued to each collaborator during the run; retrieved  *)
(*            counts the retrieval calls (internal and web) that returned, *)
(*            executed the executions of each node                         *)
(*   steps  - node executions of the run                                   *)
(*   io     - what the last node execution exchanged with its collaborator *)
(*            (incoming: the list a retrieval call returned, or the reply  *)
(*            of the decision call), or the request the handler was called *)
(*            with                                                         *)
(*   result - the dict query() returned, as a sequence of length 0 or 1    *)
(* state .. result are the locals of the query() execution that is         *)
(* running; when a second caller shares the agent,                         *)
(*   suspended - holds the locals of the other caller's execution, as a    *)
(*            sequence of length 0 (no second caller) or 1                 *)
(***************************************************************************)
VARIABLES agent, state, pc, calls, steps, io, result, suspended

vars == <<agent, state, pc, calls, steps, io, result, suspended>>

Nodes == {"decide_action", "refine_query", "search", "search_web", "generate_answer"}

NoCalls == [decision |-> 0, refine |-> 0, search |-> 0, web |-> 0,
            generation |-> 0, states |-> 0, retrieved |-> 0,
            executed |-> [n \in Nodes |-> 0]]
NoIO == [node |-> "none", ok |-> TRUE, invoked |-> 0, incoming |-> <<>>, argument |-> <<>>]

\* LegalRAGAgent.__init__.  No AgentState exists before query(): state holds
\* a placeholder and calls.states = 0.
Init ==
    /\ agent \in [max_iterations : 1..MaxIter,
                  top_k : {3},
                  enable_web_search : BOOLEAN,
                  web_search : {FALSE},
                  workflow : {FALSE},
                  prompt_templates : {"PromptTemplates", "custom"}]
    /\ state = initial_state(agent, <<>>)
    /\ pc = "new"
    /\ calls = NoCalls
    /\ steps = 0
    /\ io = NoIO
    /\ result = <<>>
    /\ suspended = <<>>

\* LegalRAGAgent.initialize: web search stays enabled only if the
\* LegalWebSearch object could be constructed
initialize ==
    /\ pc = "new"
    /\ \E constructed \in BOOLEAN :
          agent' = [agent EXCEPT
                      !.web_search = agent.enable_web_search /\ constructed,
                      !.enable_web_search = agent.enable_web_search /\ constructed,
                      !.workflow = TRUE]
    /\ pc' = "idle"
    /\ UNCHANGED <<state, calls, steps, io, result, suspended>>

\* query() if it did not test self.workflow before building the state
query_without_precondition ==
    /\ pc \in {"new", "idle"}
    /\ \E question \in Questions :
          /\ state' = AgentState(initial_state(agent, <<>>),
                                 initial_state(agent, question))
          /\ calls' = [NoCalls EXCEPT !.states = 1]
          /\ pc' = "decide_action"
    /\ UNCHANGED <<agent, steps, io, result, suspended>>

\* query() if the compiled workflow kept one set of channels for all its
\* invocations: the state passed to invoke is written onto the channels of
\* the other caller's run
query_shared_channels ==
    /\ pc \in {"new", "idle"}
    /\ \E question \in Questions :
          IF ~agent.workflow
          THEN /\ pc' = "raised"
               /\ UNCHANGED <<state, calls>>
          ELSE /\ state' = AgentState(IF suspended # <<>> THEN suspended[1].state
                                      ELSE initial_state(agent, <<>>),
                                      initial_state(agent, question))
               /\ calls' = [NoCalls EXCEPT !.states = 1]
               /\ pc' = "decide_action"
    /\ UNCHANGED <<agent, steps, io, result, suspended>>

\* LegalRAGAgent.query up to workflow.invoke: the precondition check and
\* the fresh AgentState written to the channels
query ==
    /\ pc \in {"new", "idle"}
    /\ \E question \in Questions :
          IF ~agent.workflow
          THEN /\ pc' = "raised"
               /\ UNCHANGED <<state, calls>>
          ELSE /\ state' = AgentState(initial_state(agent, <<>>),
                                      initial_state(agent, question))
               /\ calls' = [NoCalls EXCEPT !.states = 1]
               /\ pc' = "decide_action"
    /\ UNCHANGED <<agent, steps, io, result, suspended>>

\* a node execution if the workflow took max_iterations from the agent's
\* field after every node instead of keeping the value of the run's state
Execute_shared_bound(node, collaborator, r, out) ==
    /\ steps' = steps + 1
    /\ calls' = [calls EXCEPT
                   ![collaborator] = @ + r.invoked,
                   !.retrieved = @ + IF /\ node \in {"search", "search_web"}
                                        /\ r.invoked = 1
                                        /\ out.ok
                                     THEN 1 ELSE 0,
                   !.executed[node] = @ + 1]
    /\ io' = [node |-> node,
              ok |-> (r.invoked = 0 \/ out.ok),
              invoked |-> r.invoked,
              incoming |-> IF /\ r.invoked = 1
                              /\ out.ok
                              /\ node \in {"search", "search_web", "decide_action"}
                           THEN out.value ELSE <<>>,
              argument |-> r.argument]
    /\ IF r.raised
       THEN /\ pc' = "raised"
            /\ state' = state
       ELSE /\ state' = [AgentState(state, r.state) EXCEPT
                           !.max_iterations = agent.max_iterations]
            /\ pc' = _build_workflow(node, state')
    /\ UNCHANGED <<agent, result, suspended>>

\* one node execution inside workflow.invoke: the node returns r after its
\* collaborator answered out; the writes are applied, then the edge leaving
\* the node chooses the next node on the updated state
Execute(node, collaborator, r, out) ==
    /\ steps' = steps + 1
    /\ calls' = [calls EXCEPT
                   ![collaborator] = @ + r.invoked,
                   !.retrieved = @ + IF /\ node \in {"search", "search_web"}
                                        /\ r.invoked = 1
                                        /\ out.ok
                                     THEN 1 ELSE 0,
                   !.executed[node] = @ + 1]
    /\ io' = [node |-> node,
              ok |-> (r.invoked = 0 \/ out.ok),
              invoked |-> r.invoked,
              incoming |-> IF /\ r.invoked = 1
                              /\ out.ok
                              /\ node \in {"search", "search_web", "decide_action"}
                           THEN out.value ELSE <<>>,
              argument |-> r.argument]
    /\ IF r.raised
       THEN /\ pc' = "raised"
            /\ state' = state
       ELSE /\ state' = AgentState(state, r.state)
            /\ pc' = _build_workflow(node, state')
    /\ UNCHANGED <<agent, result, suspended>>

\* _decide_action as one step, for a run during which no other thread
\* touches the agent
DecideAction ==
    /\ pc = "decide_action"
    /\ steps < MaxSteps
    /\ \E llm \in DecisionOutcomes :
          Execute("decide_action", "decision", _decide_action(agent, state, llm), llm)

RefineQuery ==
    /\ pc = "refine_query"
    /\ steps < MaxSteps
    /\ \E llm \in RefineOutcomes :
          Execute("refine_query", "refine", _refine_query(agent, state, llm), llm)

Search ==
    /\ pc = "search"
    /\ steps < MaxSteps
    /\ \E out \in SearchOutcomes :
          Execute("search", "search", _search(agent, state, out), out)

\* _search_web as one step, for a run during which no other thread
\* touches the agent
SearchWeb ==
    /\ pc = "search_web"
    /\ steps < MaxSteps
    /\ \E out \in WebOutcomes :
          Execute("search_web", "web", _search_web(agent, state, out), out)

GenerateAnswer ==
    /\ pc = "generate_answer"
    /\ steps < MaxSteps
    /\ \E out \in GenerationOutcomes :
          Execute("generate_answer", "generation", _generate_answer(agent, state, out), out)

\* the envelope if query_used were the question the caller passed
Return_question_as_query_used ==
    /\ pc = END
    /\ result' = << [answer |-> state.answer,
                     search_results |-> state.search_results,
                     web_results |-> state.web_results,
                     iterations |-> state.iteration,
                     query_used |-> state.question] >>
    /\ pc' = "returned"
    /\ UNCHANGED <<agent, state, calls, steps, io, suspended>>

\* the envelope if a run without an answer returned the default text of
\* final_state.get("answer", ...)
Return_default_answer ==
    /\ pc = END
    /\ result' = << [answer |-> IF state.answer = None
                                THEN "Khong the tao cau tra loi."
                                ELSE state.answer,
                     search_results |-> state.search_results,
                     web_results |-> state.web_results,
                     iterations |-> state.iteration,
                     query_used |-> state.query] >>
    /\ pc' = "returned"
    /\ UNCHANGED <<agent, state, calls, steps, io, suspended>>

\* LegalRAGAgent.query after workflow.invoke: the response envelope
Return ==
    /\ pc = END
    /\ result' = << [answer |-> state.answer,
                     search_results |-> state.search_results,
                     web_results |-> state.web_results,
                     iterations |-> state.iteration,
                     query_used |-> state.query] >>
    /\ pc' = "returned"
    /\ UNCHANGED <<agent, state, calls, steps, io, suspended>>

Next ==
    \/ initialize
    \/ query
    \/ DecideAction
    \/ RefineQuery
    \/ Search
    \/ SearchWeb
    \/ GenerateAnswer
    \/ Return

Spec == Init /\ [][Next]_vars

(***************************************************************************)
(* Direct calls of the nodes.  Each node is a method that maps any         *)
(* AgentState to an AgentState, so it can be called on states no run       *)
(* started by query() reaches (an empty internal list next to a non-empty  *)
(* web list, web search enabled although no LegalWebSearch was built).     *)
(* NodeSpec starts with the workflow holding such a state and executes one *)
(* node on it.                                                             *)
(***************************************************************************)
HeldInternal == { <<>>,
                  << [text |-> "a"] >>,
                  << [text |-> "a"], [text |-> "b"] >> }
HeldWeb == { <<>>,
             << [type |-> "article", content |-> "w"] >>,
             << [type |-> "other", content |-> "w"] >>,
             << [type |-> "answer", content |-> "v"], [type |-> "article", content |-> "w"] >> }

NodeInit ==
    /\ agent \in [max_iterations : {MaxIter},
                  top_k : {3},
                  enable_web_search : BOOLEAN,
                  web_search : BOOLEAN,
                  workflow : {TRUE},
                  prompt_templates : {"PromptTemplates", "custom"}]
    /\ state \in {s \in [question : Questions,
                         query : Questions,
                         search_results : HeldInternal,
                         web_results : HeldWeb,
                         answer : {None},
                         iteration : 0..MaxIter,
                         max_iterations : 1..MaxIter,
                         needs_refinement : BOOLEAN,
                         should_continue : BOOLEAN,
                         use_web_search : BOOLEAN] :
                    /\ s.query = s.question
                    /\ s.iteration <= s.max_iterations}
    /\ pc \in Nodes
    /\ calls = [NoCalls EXCEPT !.states = 1]
    /\ steps = 0
    /\ io = NoIO
    /\ result = <<>>
    /\ suspended = <<>>

NodeNext ==
    /\ steps = 0
    /\ \/ DecideAction
       \/ RefineQuery
       \/ Search
       \/ SearchWeb
       \/ GenerateAnswer

NodeSpec == NodeInit /\ [][NodeNext]_vars

(***************************************************************************)
(* The HTTP layer (api_server.py).  query_legal_rag serves a request on    *)
(* the module's agent: it writes the request's options to the agent's      *)
(* fields and calls agent.query.  An optional field of the request is a    *)
(* sequence of length 0 (None) or 1.  The handler serves whatever agent    *)
(* the module global holds.  lifespan, which is meant to fill it, passes    *)
(* LegalRAGAgent a keyword the constructor does not take (tavily_api_key):  *)
(* the call raises TypeError, the global stays None and the handler         *)
(* answers 503 before it reaches an agent.  The agent served below is one   *)
(* built by LegalRAGAgent(...) and initialize() and put in the global by    *)
(* other means.                                                            *)
(***************************************************************************)
QueryRequest ==
    [question : Questions,
     max_iterations : {<<>>} \cup {<<n>> : n \in 1..MaxIter},
     top_k : {<<>>, <<3>>},
     enable_web_search : {<<>>, <<TRUE>>, <<FALSE>>}]

\* the handler up to workflow.invoke: the three conditional writes, then
\* query() on the agent as written
query_legal_rag ==
    /\ pc = "idle"
    /\ \E request \in QueryRequest :
          LET configured ==
                [agent EXCEPT
                   !.max_iterations = IF request.max_iterations # <<>>
                                      THEN request.max_iterations[1] ELSE @,
                   !.top_k = IF request.top_k # <<>> THEN request.top_k[1] ELSE @,
                   !.enable_web_search = IF request.enable_web_search # <<>>
                                         THEN request.enable_web_search[1] ELSE @]
          IN  /\ agent' = configured
              /\ state' = AgentState(initial_state(configured, <<>>),
                                     initial_state(configured, request.question))
              /\ calls' = [NoCalls EXCEPT !.states = 1]
              /\ io' = [NoIO EXCEPT !.node = "query_legal_rag",
                                    !.incoming = <<request>>]
              /\ pc' = "decide_action"
    /\ UNCHANGED <<steps, result, suspended>>

ApiNext ==
    \/ initialize
    \/ query_legal_rag
    \/ DecideAction
    \/ RefineQuery
    \/ Search
    \/ SearchWeb
    \/ GenerateAnswer
    \/ Return

ApiSpec == Init /\ [][ApiNext]_vars

(***************************************************************************)
(* The handler serving one request after another on the same agent: an    *)
(* agent built with the constructor's defaults for max_iterations, top_k   *)
(* and enable_web_search, which are also the defaults QueryRequest         *)
(* documents.  When the handler returns its response, or turns an          *)
(* exception of query() into an HTTP error, its locals are gone and the    *)
(* agent waits for the next request.                                       *)
(***************************************************************************)
\* max_iterations: int = 3 of LegalRAGAgent.__init__, also the default of
\* QueryRequest.max_iterations
DEFAULT_MAX_ITERATIONS == 3
\* top_k: int = 3 of LegalRAGAgent.__init__, also the default of
\* QueryRequest.top_k
DEFAULT_TOP_K == 3

\* LegalRAGAgent.__init__ called without max_iterations, top_k and
\* enable_web_search
ServerInit ==
    /\ agent \in [max_iterations : {DEFAULT_MAX_ITERATIONS},
                  top_k : {DEFAULT_TOP_K},
                  enable_web_search : {TRUE},
                  web_search : {FALSE},
                  workflow : {FALSE},
                  prompt_templates : {"PromptTemplates", "custom"}]
    /\ state = initial_state(agent, <<>>)
    /\ pc = "new"
    /\ calls = NoCalls
    /\ steps = 0
    /\ io = NoIO
    /\ result = <<>>
    /\ suspended = <<>>

\* the handler after agent.query: the QueryResponse built from the result,
\* or the HTTPException built from the exception
respond ==
    /\ pc \in {"returned", "raised"}
    /\ calls.states = 1
    /\ pc' = "idle"
    /\ state' = initial_state(agent, <<>>)
    /\ calls' = NoCalls
    /\ steps' = 0
    /\ io' = NoIO
    /\ result' = <<>>
    /\ UNCHANGED <<agent, suspended>>

ServerNext ==
    \/ initialize
    \/ query_legal_rag
    \/ DecideAction
    \/ RefineQuery
    \/ Search
    \/ SearchWeb
    \/ GenerateAnswer
    \/ Return
    \/ respond

ServerSpec == ServerInit /\ [][ServerNext]_vars

(***************************************************************************)

(* Two callers sharing one initialized agent.  Each call of query() has    *)
(* its own locals (initial_state, the channels workflow.invoke creates,    *)
(* final_state); the interpreter may switch from one caller's execution to *)
(* the other's between any two steps.  The agent's fields are shared.      *)
(***************************************************************************)
\* max_iterations of the shared agent
ConcurrentIterations == 2
\* node executions explored for the two callers together
ConcurrentSteps == 6

\* the locals of the running execution
Frame == [state |-> state, pc |-> pc, calls |-> calls, steps |-> steps,
          io |-> io, result |-> result]

\* the locals of a caller that has not called query() yet
IdleFrame(self) == [state |-> initial_state(self, <<>>), pc |-> "idle",
                    calls |-> NoCalls, steps |-> 0, io |-> NoIO, result |-> <<>>]

ConcurrentInit ==
    /\ \E available \in BOOLEAN :
          agent \in [max_iterations : {ConcurrentIterations},
                     top_k : {3},
                     enable_web_search : {available},
                     web_search : {available},
                     workflow : {TRUE},
                     prompt_templates : {"custom"}]
    /\ state = IdleFrame(agent).state
    /\ pc = "idle"
    /\ calls = NoCalls
    /\ steps = 0
    /\ io = NoIO
    /\ result = <<>>
    /\ suspended = << IdleFrame(agent) >>

\* the interpreter suspends the running execution and resumes the other
switch ==
    /\ suspended # <<>>
    /\ suspended' = << Frame >>
    /\ state' = suspended[1].state
    /\ pc' = suspended[1].pc
    /\ calls' = suspended[1].calls
    /\ steps' = suspended[1].steps
    /\ io' = suspended[1].io
    /\ result' = suspended[1].result
    /\ UNCHANGED agent

ConcurrentNext ==
    \/ query
    \/ /\ steps + suspended[1].steps < ConcurrentSteps
       /\ \/ DecideAction
          \/ RefineQuery
          \/ Search
          \/ SearchWeb
          \/ GenerateAnswer
    \/ Return
    \/ switch

ConcurrentSpec == ConcurrentInit /\ [][ConcurrentNext]_vars

(***************************************************************************)
(* A caller running query() on one thread while a caller on another       *)
(* thread assigns the configuration fields of the same agent, as           *)
(* query_legal_rag does before it calls query().  (The handlers of         *)
(* api_server.py themselves run one after another on the event loop: the   *)
(* handler is a coroutine that calls query() without awaiting anything.)   *)
(* An assignment can fall between any two steps of the run, and also       *)
(* inside _decide_action, which reads self.enable_web_search before it     *)
(* calls llm.invoke and again after the reply has come: there the node is  *)
(* two steps, with pc = "llm.invoke" in between.  _search_web reads        *)
(* self.enable_web_search, waits in search_vietnamese_law and writes       *)
(* web_results and iteration after the reply without reading the flag      *)
(* again: it is two steps as well, with pc = "search_vietnamese_law" in    *)
(* between.  The remaining nodes read none of the assigned fields.         *)
(***************************************************************************)
\* node executions explored for the run
RaceSteps == 6

RaceInit ==
    /\ \E available \in BOOLEAN :
          agent \in [max_iterations : 1..MaxIter,
                     top_k : {3},
                     enable_web_search : {available},
                     web_search : {available},
                     workflow : {TRUE},
                     prompt_templates : {"custom"}]
    /\ state = initial_state(agent, <<>>)
    /\ pc = "idle"
    /\ calls = NoCalls
    /\ steps = 0
    /\ io = NoIO
    /\ result = <<>>
    /\ suspended = <<>>

\* the other caller assigns agent.max_iterations or agent.enable_web_search
assign ==
    /\ \/ \E n \in 1..MaxIter : agent' = [agent EXCEPT !.max_iterations = n]
       \/ \E b \in BOOLEAN : agent' = [agent EXCEPT !.enable_web_search = b]
    /\ agent' # agent
    /\ UNCHANGED <<state, pc, calls, steps, io, result, suspended>>

\* _decide_action up to llm.invoke: the hard stop, the bootstrap, the
\* fallback and a failing get_decision_prompt end the node here; otherwise
\* the node waits for the reply
DecideActionInvoke ==
    /\ pc = "decide_action"
    /\ LET r == _decide_action(agent, state, Failure)
       IN  IF r.raised \/ r.invoked = 0
           THEN Execute("decide_action", "decision", r, Failure)
           ELSE /\ pc' = "llm.invoke"
                /\ UNCHANGED <<agent, state, calls, steps, io, result, suspended>>

\* _decide_action from the reply of llm.invoke on
DecideActionReply ==
    /\ pc = "llm.invoke"
    /\ \E llm \in DecisionOutcomes :
          Execute("decide_action", "decision", parse_decision(agent, state, llm), llm)

\* _search_web up to search_vietnamese_law: without the capability or with
\* the flag cleared the node returns the state as it is; otherwise the
\* node waits for the reply
SearchWebCall ==
    /\ pc = "search_web"
    /\ LET r == _search_web(agent, state, Failure)
       IN  IF r.invoked = 0
           THEN Execute("search_web", "web", r, Failure)
           ELSE /\ pc' = "search_vietnamese_law"
                /\ UNCHANGED <<agent, state, calls, steps, io, result, suspended>>

\* _search_web from the reply of search_vietnamese_law on
SearchWebReply ==
    /\ pc = "search_vietnamese_law"
    /\ \E out \in WebOutcomes :
          Execute("search_web", "web", merged_web_results(state, out), out)

RaceNext ==
    \/ query
    \/ assign
    \/ /\ steps < RaceSteps
       /\ \/ DecideActionInvoke
          \/ DecideActionReply
          \/ RefineQuery
          \/ Search
          \/ SearchWebCall
          \/ SearchWebReply
          \/ GenerateAnswer
    \/ Return

RaceSpec == RaceInit /\ [][RaceNext]_vars

(***************************************************************************)
(* Properties.                                                             *)
(***************************************************************************)
\* a step that executes one node
NodeRan == steps' = steps + 1
\* a run started by query() holds an AgentState
InRun == calls.states = 1

IsPrefix(a, b) == Len(a) <= Len(b) /\ SubSeq(b, 1, Len(a)) = a
Suffix(a, b) == SubSeq(b, Len(a) + 1, Len(b))
Keys(list, key) == {list[i][key] : i \in 1..Len(list)}
NoDuplicates(list, key) ==
    \A i, j \in 1..Len(list) : list[i][key] = list[j][key] => i = j

\* a occurs in b as a subsequence, in order
RECURSIVE IsSubsequence(_, _)
IsSubsequence(a, b) ==
    IF a = <<>> THEN TRUE
    ELSE IF b = <<>> THEN FALSE
    ELSE IF Head(a) = Head(b) THEN IsSubsequence(Tail(a), Tail(b))
    ELSE IsSubsequence(a, Tail(b))

\* the items of list whose key does not occur in before
Fresh(list, before, key) ==
    LET old == Keys(before, key)
        new(r) == r[key] \notin old
    IN  SelectSeq(list, new)

\* the question "MUC phat", which contains the keyword "muc" in upper case
KeywordQuestion == <<77, 7912, 67, 32, 112, 104, 7841, 116>>

\* C1: during a run 0 <= iteration <= max_iterations, no node execution
\* decreases iteration, and the iterations value query() returns is at most
\* the configured max_iterations.
IterationBound ==
    /\ [](InRun => (0 <= state.iteration /\ state.iteration <= state.max_iterations))
    /\ [](result # <<>> => result[1].iterations <= agent.max_iterations)
    /\ [][NodeRan => state'.iteration >= state.iteration]_vars

\* a run returned after reaching iteration 2 or more
IterationBoundWitness ==
    /\ pc = "returned"
    /\ result # <<>>
    /\ result[1].iterations >= 2
    /\ result[1].iterations = state.max_iterations

\* C2: whatever the collaborators do, a run reaches generate_answer or END
\* within a number of node executions linear in max_iterations; 3 *
\* max_iterations is the bound that holds when no call fails (one
\* DecideAction, at most one RefineQuery and one retrieval per iteration,
\* no RefineQuery in the first, one GenerateAnswer).
Termination == InRun => steps <= 3 * state.max_iterations

\* C3: between node executions the accumulated internal results hold no two
\* items with equal text and the accumulated web results no two items with
\* equal content.
DeduplicatedAccumulation ==
    InRun => /\ NoDuplicates(state.search_results, "text")
             /\ NoDuplicates(state.web_results, "content")

\* C4: every node execution leaves each accumulated list as a prefix of
\* the list after it, and the items it adds whose text (content) was not
\* accumulated before appear in their order of arrival.
AppendOnly ==
    [][NodeRan =>
        /\ IsPrefix(state.search_results, state'.search_results)
        /\ IsPrefix(state.web_results, state'.web_results)
        /\ IsSubsequence(Fresh(Suffix(state.search_results, state'.search_results),
                               state.search_results, "text"),
                         IF io'.node = "search" THEN io'.incoming ELSE <<>>)
        /\ IsSubsequence(Fresh(Suffix(state.web_results, state'.web_results),
                               state.web_results, "content"),
                         IF io'.node = "search_web" THEN io'.incoming ELSE <<>>)
      ]_vars

\* a search on a non-empty accumulated list has appended two results with
\* new texts, in their order of arrival
AppendOnlyWitness ==
    /\ io.node = "search"
    /\ io.ok
    /\ Len(io.incoming) = 2
    /\ io.incoming[1].text # io.incoming[2].text
    /\ Len(state.search_results) >= 4
    /\ state.search_results[Len(state.search_results) - 1] = io.incoming[1]
    /\ state.search_results[Len(state.search_results)] = io.incoming[2]
    /\ state.search_results[1].text \notin Keys(io.incoming, "text")

\* C5: a successful Search lengthens the accumulated internal list by
\* exactly the number of distinct texts of the incoming list that were not
\* accumulated before.
MergeDelta ==
    [][(NodeRan /\ pc = "search" /\ io'.ok) =>
        Len(state'.search_results) = Len(state.search_results)
            + Cardinality(Keys(io'.incoming, "text") \ Keys(state.search_results, "text"))
      ]_vars

\* C6: a successful Search whose incoming texts all occur in the
\* accumulated internal list leaves that list unchanged and advances
\* iteration by one.
DedupIdempotence ==
    [][(/\ NodeRan
        /\ pc = "search"
        /\ io'.ok
        /\ Keys(io'.incoming, "text") \subseteq Keys(state.search_results, "text")) =>
        /\ state'.search_results = state.search_results
        /\ state'.iteration = state.iteration + 1
      ]_vars

\* C7: no execution of DecideAction lets an exception leave the node.
DecisionNeverRaises == ~(io.node = "decide_action" /\ pc = "raised")

\* C8: answer changes only from unset, only in a GenerateAnswer execution,
\* and once GenerateAnswer has executed no node executes and no field of
\* AgentState changes.
AnswerWrittenOnce ==
    [][/\ (state'.answer # state.answer =>
              state.answer = None /\ pc = "generate_answer" /\ NodeRan)
       /\ (io.node = "generate_answer" => state' = state /\ steps' = steps)
      ]_vars

\* a run returned an answer written by GenerateAnswer
AnswerWrittenOnceWitness ==
    /\ pc = "returned"
    /\ io.node = "generate_answer"
    /\ state.answer # None
    /\ result[1].answer = state.answer

\* the web results that ground an answer: those of type article or answer
WebGrounding(s) ==
    LET grounds(r) == r.type \in {"article", "answer"}
    IN  SelectSeq(s.web_results, grounds)

\* the number of grounding items of a state: every internal result and
\* every grounding web result
GroundingCount(s) == Len(s.search_results) + Len(WebGrounding(s))

\* C9: GenerateAnswer on zero grounding items sets the fixed not-found
\* answer without calling the generation capability; on one or more it
\* calls it exactly once with all of them, the internal ones first.
EmptyShortCircuit ==
    [][(NodeRan /\ pc = "generate_answer") =>
        IF GroundingCount(state) = 0
        THEN /\ state'.answer = NOT_FOUND_ANSWER
             /\ calls'.generation = calls.generation
        ELSE /\ calls'.generation = calls.generation + 1
             /\ Len(io'.argument) = GroundingCount(state)
             /\ \A i \in 1..Len(state.search_results) :
                   /\ io'.argument[i].body = state.search_results[i].text
                   /\ io'.argument[i].source_type = "internal"
             /\ \A i \in 1..Len(WebGrounding(state)) :
                   /\ io'.argument[Len(state.search_results) + i].body
                        = WebGrounding(state)[i].content
                   /\ io'.argument[Len(state.search_results) + i].source_type = "web"
      ]_vars

\* GenerateAnswer ran on web results none of which is an article or an
\* answer, and short-circuited
EmptyShortCircuitWitness ==
    /\ io.node = "generate_answer"
    /\ state.search_results = <<>>
    /\ state.web_results # <<>>
    /\ state.answer = NOT_FOUND_ANSWER
    /\ calls.generation = 0

\* C10: DecideAction with web search enabled, 2 <= iteration <
\* max_iterations, internal results, no web results and a keyword question
\* selects web search without calling the decision capability.
FallbackTrigger ==
    [][(/\ NodeRan
        /\ pc = "decide_action"
        /\ agent.enable_web_search
        /\ 2 <= state.iteration
        /\ state.iteration < state.max_iterations
        /\ state.search_results # <<>>
        /\ state.web_results = <<>>
        /\ state.question = KeywordQuestion) =>
        /\ pc' # "raised"
        /\ state'.use_web_search
        /\ ~state'.needs_refinement
        /\ state'.should_continue
        /\ calls'.decision = calls.decision
      ]_vars

\* the fallback fired in a run: DecideAction chose web search at iteration
\* 2 without a decision call
FallbackTriggerWitness ==
    /\ io.node = "decide_action"
    /\ io.invoked = 0
    /\ pc = "search_web"
    /\ state.iteration = 2
    /\ state.web_results = <<>>
    /\ state.question = KeywordQuestion

\* C11: a GenerateAnswer execution whose generation call fails does not
\* raise, sets answer to the error text and leaves the accumulated results,
\* iteration and query as they were; query() then returns the envelope
\* built from them.
GenerationFailure ==
    /\ [][(NodeRan /\ pc = "generate_answer" /\ ~io'.ok) =>
            /\ pc' = END
            /\ state'.answer = ERROR_ANSWER
            /\ state'.search_results = state.search_results
            /\ state'.web_results = state.web_results
            /\ state'.iteration = state.iteration
            /\ state'.query = state.query
         ]_vars
    /\ []((pc = "returned" /\ io.node = "generate_answer" /\ ~io.ok) =>
            /\ result[1].answer = ERROR_ANSWER
            /\ result[1].iterations = state.iteration
            /\ result[1].query_used = state.query)

\* C12: query() on an agent whose workflow has not been built raises at
\* once: no AgentState is created, no node executes, no collaborator is
\* called and nothing is returned.
PreconditionFailure ==
    /\ [][(pc = "new" /\ pc' # "idle" /\ pc' # "new") =>
            /\ pc' = "raised"
            /\ state' = state
            /\ calls' = NoCalls
            /\ steps' = 0
            /\ io' = NoIO
         ]_vars
    /\ [](~agent.workflow => (~InRun /\ steps = 0 /\ calls = NoCalls /\ result = <<>>))

\* query() was called before initialize() and raised
PreconditionFailureWitness ==
    /\ pc = "raised"
    /\ ~agent.workflow
    /\ calls = NoCalls
    /\ steps = 0

\* the keys of the response envelope
EnvelopeFields == {"answer", "search_results", "web_results", "iterations", "query_used"}

\* C13: every run that reaches a terminal state returns an envelope with
\* exactly the five fields; the two lists are the accumulated lists,
\* iterations is the final iteration and query_used the last query.
ResponseEnvelope ==
    /\ [][(pc = END /\ pc' # END) => (pc' = "returned" /\ Len(result') = 1)]_vars
    /\ [](pc = "returned" =>
            /\ DOMAIN result[1] = EnvelopeFields
            /\ result[1].search_results = state.search_results
            /\ result[1].web_results = state.web_results
            /\ result[1].iterations = state.iteration
            /\ result[1].query_used = state.query
            /\ result[1].answer = state.answer)

\* a run that refined its query returned the refined query, not the question
ResponseEnvelopeWitness ==
    /\ pc = "returned"
    /\ calls.refine >= 1
    /\ result[1].query_used # state.question
    /\ result[1].query_used = state.query
    /\ result[1].web_results # <<>>

\* C14: with two callers on one agent, every query() starts its run from a
\* fresh AgentState (iteration 0, both lists empty, answer unset, flags at
\* their defaults), and the AgentState of the execution that is not running
\* is changed by no step of the running one: it is found on resumption as
\* it was left on suspension.
RunIsolation ==
    /\ [][(pc = "idle" /\ pc' = "decide_action" /\ suspended' = suspended) =>
            /\ state'.iteration = 0
            /\ state'.search_results = <<>>
            /\ state'.web_results = <<>>
            /\ state'.answer = None
            /\ ~state'.needs_refinement
            /\ state'.should_continue
            /\ ~state'.use_web_search
            /\ state'.query = state'.question
            /\ state'.max_iterations = agent.max_iterations
         ]_vars
    /\ [][suspended' # suspended =>
            /\ suspended' = << Frame >>
            /\ Frame' = suspended[1]
         ]_vars

\* the second caller's run started fresh and executed a search while the
\* first caller's run, holding results of its own, was suspended
RunIsolationWitness ==
    /\ suspended # <<>>
    /\ suspended[1].pc \in Nodes
    /\ suspended[1].state.iteration = 1
    /\ suspended[1].state.search_results # <<>>
    /\ io.node = "search"
    /\ state.iteration = 1
    /\ state.question # suspended[1].state.question
    /\ Keys(state.search_results, "text") \cap Keys(suspended[1].state.search_results, "text") = {}

\* C15: a run starts at DecideAction; its first DecideAction calls the
\* decision capability zero times, sets should_continue, clears
\* needs_refinement and use_web_search and leads to Search; RefineQuery and
\* SearchWeb execute only after a Search has.
Bootstrap ==
    /\ [][(pc \in {"new", "idle"} /\ pc' \notin {"new", "idle", "raised"}) =>
            (pc' = "decide_action" /\ steps' = 0)]_vars
    /\ [][(NodeRan /\ steps = 0) =>
            /\ pc = "decide_action"
            /\ calls'.decision = 0
            /\ state'.should_continue
            /\ ~state'.needs_refinement
            /\ ~state'.use_web_search
            /\ pc' = "search"
         ]_vars
    /\ [][(NodeRan /\ pc \in {"refine_query", "search_web"}) =>
            (steps >= 2 /\ calls.search >= 1)]_vars

\* the first DecideAction of a run on a keyword question, with web search
\* enabled and the prompt provider of the repository, led to Search without
\* a decision call
BootstrapWitness ==
    /\ InRun
    /\ steps = 1
    /\ io.node = "decide_action"
    /\ io.invoked = 0
    /\ pc = "search"
    /\ agent.enable_web_search
    /\ agent.prompt_templates = "PromptTemplates"
    /\ state.question = KeywordQuestion
    /\ state.max_iterations = 1

\* the run of the end-to-end scenario: max_iterations 3, web search enabled
\* and available, a keyword question, and every retrieval call so far
\* successful (each success advances iteration by one, a failure by none)
Scenario ==
    /\ InRun
    /\ state.max_iterations = 3
    /\ agent.enable_web_search
    /\ agent.web_search
    /\ state.question = KeywordQuestion
    /\ calls.search + calls.web = state.iteration

\* C16: in the scenario, once two internal searches have succeeded with
\* results (the decision at iteration 1 chose refine or search), DecideAction
\* at iteration 2 goes to SearchWeb without a decision call, the successful
\* SearchWeb brings iteration to 3 and leads to GenerateAnswer, the run
\* ends there and query() returns iterations = 3.
EndToEnd ==
    /\ [][(NodeRan /\ Scenario /\ pc = "decide_action" /\ calls.search = 2
            /\ state.iteration = 2 /\ state.search_results # <<>>) =>
            (pc' = "search_web" /\ calls'.decision = calls.decision)]_vars
    /\ [][(NodeRan /\ Scenario /\ pc = "search_web" /\ calls.search = 2
            /\ state.iteration = 2 /\ io'.ok) =>
            (state'.iteration = 3 /\ calls'.web = 1 /\ pc' = "generate_answer")]_vars
    /\ [][(NodeRan /\ Scenario /\ pc = "generate_answer") =>
            (pc' = END /\ state'.answer # None)]_vars
    /\ []((Scenario /\ pc = "returned" /\ calls.search = 2 /\ calls.web = 1) =>
            /\ io.node = "generate_answer"
            /\ result[1].iterations = 3
            /\ result[1].iterations <= state.max_iterations
            /\ result[1].answer # None)

\* the scenario ran to its end: bootstrap, search, one decision call,
\* a refinement, search, the fallback to web search, the answer
EndToEndWitness ==
    /\ Scenario
    /\ pc = "returned"
    /\ steps = 8
    /\ calls.decision = 1
    /\ calls.refine = 1
    /\ calls.search = 2
    /\ calls.web = 1
    /\ calls.generation = 1
    /\ state.web_results # <<>>
    /\ result[1].iterations = 3

\* C17: the node that follows a DecideAction execution is, on the state it
\* leaves: with should_continue false, GenerateAnswer if internal or web
\* results exist and End if neither does; with should_continue true,
\* RefineQuery if needs_refinement, else SearchWeb if use_web_search, else
\* Search.
RouteAfterDecide ==
    [][(NodeRan /\ pc = "decide_action" /\ pc' # "raised") =>
        pc' = IF ~state'.should_continue
              THEN IF state'.search_results # <<>> \/ state'.web_results # <<>>
                   THEN "generate_answer" ELSE END
              ELSE IF state'.needs_refinement THEN "refine_query"
              ELSE IF state'.use_web_search THEN "search_web"
              ELSE "search"
      ]_vars

\* DecideAction stopped on a state with no results and the run ended
RouteAfterDecideWitness ==
    /\ io.node = "decide_action"
    /\ pc = END
    /\ ~state.should_continue
    /\ state.search_results = <<>>
    /\ state.web_results = <<>>

\* C18: the node that follows a Search execution is, on the state it
\* leaves: End if the internal results are empty; otherwise DecideAction if
\* iteration < max_iterations and GenerateAnswer if iteration >=
\* max_iterations.
RouteAfterSearch ==
    [][(NodeRan /\ pc = "search") =>
        pc' = IF state'.search_results = <<>> THEN END
              ELSE IF state'.iteration < state'.max_iterations THEN "decide_action"
              ELSE "generate_answer"
      ]_vars

\* a Search that left the internal results empty next to web results ended
\* the run before max_iterations
RouteAfterSearchWitness ==
    /\ io.node = "search"
    /\ pc = END
    /\ state.search_results = <<>>
    /\ state.web_results # <<>>
    /\ state.iteration < state.max_iterations

\* C19: in a run with max_iterations >= 3 on a keyword question, with web
\* search enabled but no web-search capability constructed and internal
\* results accumulated, no SearchWeb execution hands the run back to
\* DecideAction with iteration unchanged and no call made, from where the
\* same two executions repeat.
WebUnavailableProgress ==
    [][(/\ NodeRan
        /\ pc = "search_web"
        /\ agent.enable_web_search
        /\ ~agent.web_search
        /\ state.max_iterations >= 3
        /\ state.question = KeywordQuestion
        /\ state.search_results # <<>>) =>
        ~(/\ pc' = "decide_action"
          /\ state'.iteration = state.iteration
          /\ state'.web_results = <<>>
          /\ io'.invoked = 0)
      ]_vars

\* the replies of the decision call: "refine", "REFINE web",
\* " Web_Search" followed by a newline, "search", "answer"
ReplyRefine == <<114, 101, 102, 105, 110, 101>>
ReplyRefineWeb == <<82, 69, 70, 73, 78, 69, 32, 119, 101, 98>>
ReplyWebSearch == <<32, 87, 101, 98, 95, 83, 101, 97, 114, 99, 104, 10>>
ReplySearch == <<115, 101, 97, 114, 99, 104>>
ReplyAnswer == <<97, 110, 115, 119, 101, 114>>

\* C20: a DecideAction execution that received a reply from the decision
\* call sets the flags by the first match, whatever the case of the
\* reply: "refine" (also next to "web") selects refinement; else "web"
\* with web search enabled selects web search; else "search" (also inside
\* "web_search" with web search disabled) selects internal search; any
\* other reply clears should_continue.
DecisionParsing ==
    [][(NodeRan /\ pc = "decide_action" /\ io'.invoked = 1 /\ io'.ok) =>
        LET reply == io'.incoming
            refine == /\ state'.needs_refinement
                      /\ ~state'.use_web_search
                      /\ state'.should_continue
                      /\ pc' = "refine_query"
            web == /\ ~state'.needs_refinement
                   /\ state'.use_web_search
                   /\ state'.should_continue
                   /\ pc' = "search_web"
            internal == /\ ~state'.needs_refinement
                        /\ ~state'.use_web_search
                        /\ state'.should_continue
                        /\ pc' = "search"
            stop == /\ ~state'.should_continue
                    /\ ~state'.use_web_search
        IN  CASE reply \in {ReplyRefine, ReplyRefineWeb} -> refine
              [] reply = ReplyWebSearch -> IF agent.enable_web_search THEN web ELSE internal
              [] reply = ReplySearch -> internal
              [] reply = ReplyAnswer -> stop
              [] OTHER -> FALSE
      ]_vars

\* with web search enabled the reply "REFINE web" selected refinement
DecisionParsingWitness ==
    /\ io.node = "decide_action"
    /\ io.invoked = 1
    /\ io.incoming = ReplyRefineWeb
    /\ agent.enable_web_search
    /\ state.needs_refinement
    /\ ~state.use_web_search
    /\ pc = "refine_query"

\* C21: a DecideAction execution whose decision call fails does not raise;
\* with internal or web results it clears should_continue and
\* use_web_search and the run goes to GenerateAnswer, after which no
\* retrieval call is made; with no results it sets should_continue and
\* clears needs_refinement and use_web_search.
DecisionFailureFallback ==
    /\ [][(NodeRan /\ pc = "decide_action" /\ io'.invoked = 1 /\ ~io'.ok) =>
            /\ pc' # "raised"
            /\ IF state.search_results # <<>> \/ state.web_results # <<>>
               THEN /\ ~state'.should_continue
                    /\ ~state'.use_web_search
                    /\ pc' = "generate_answer"
               ELSE /\ state'.should_continue
                    /\ ~state'.needs_refinement
                    /\ ~state'.use_web_search
         ]_vars
    /\ [][(NodeRan /\ pc = "generate_answer") =>
            (calls'.search = calls.search /\ calls'.web = calls.web /\ pc' = END)]_vars

\* the decision call failed right after a refinement had been chosen and
\* carried out: the run went to GenerateAnswer with needs_refinement still set
DecisionFailureFallbackWitness ==
    /\ io.node = "decide_action"
    /\ io.invoked = 1
    /\ ~io.ok
    /\ state.needs_refinement
    /\ ~state.should_continue
    /\ calls.refine = 1
    /\ pc = "generate_answer"

\* C22: a Search or SearchWeb execution whose retrieval call returns
\* raises iteration by exactly one, whatever it adds; every other node
\* execution leaves iteration as it is; so during a run iteration equals
\* the number of retrieval calls that returned, and that is the iterations
\* value query() returns.
IterationAccounting ==
    /\ [][NodeRan =>
            state'.iteration =
                IF pc \in {"search", "search_web"} /\ io'.invoked = 1 /\ io'.ok
                THEN state.iteration + 1 ELSE state.iteration
         ]_vars
    /\ [](InRun => state.iteration = calls.retrieved)
    /\ [](pc = "returned" => result[1].iterations = calls.retrieved)

\* a run returned after a second internal search that added no new text
\* and still counted as an iteration
IterationAccountingWitness ==
    /\ pc = "returned"
    /\ io.node = "generate_answer"
    /\ calls.search = 2
    /\ calls.web = 0
    /\ calls.retrieved = 2
    /\ result[1].iterations = 2
    /\ Cardinality(Keys(state.search_results, "text")) = 1

\* C23: a Search or SearchWeb execution whose retrieval call fails does not
\* raise and leaves both accumulated lists, iteration, query and the three
\* decision flags as they were before it.
RetrievalFailure ==
    [][(NodeRan /\ pc \in {"search", "search_web"} /\ io'.invoked = 1 /\ ~io'.ok) =>
        /\ pc' # "raised"
        /\ state'.search_results = state.search_results
        /\ state'.web_results = state.web_results
        /\ state'.iteration = state.iteration
        /\ state'.query = state.query
        /\ state'.needs_refinement = state.needs_refinement
        /\ state'.should_continue = state.should_continue
        /\ state'.use_web_search = state.use_web_search
      ]_vars

\* C24: the node that follows a SearchWeb execution is fixed by iteration,
\* max_iterations and the emptiness of the internal results of the state it
\* leaves, by the rule that holds after Search: End if the internal results
\* are empty, else DecideAction if iteration < max_iterations, else
\* GenerateAnswer.  The web results have no part in it.
RouteAfterWebSearch ==
    [][(NodeRan /\ pc = "search_web") =>
        pc' = CASE state'.search_results = <<>> -> END
                [] state'.search_results # <<>>
                   /\ state'.iteration < state'.max_iterations -> "decide_action"
                [] state'.search_results # <<>>
                   /\ state'.iteration >= state'.max_iterations -> "generate_answer"
      ]_vars

\* a SearchWeb that brought web results to a state without internal
\* results ended the run
RouteAfterWebSearchWitness ==
    /\ io.node = "search_web"
    /\ io.invoked = 1
    /\ io.ok
    /\ io.incoming # <<>>
    /\ state.web_results # <<>>
    /\ state.search_results = <<>>
    /\ pc = END

\* C25: in a run SearchWeb executes only on a state whose internal results
\* are non-empty, and a run ends without GenerateAnswer only on leaving a
\* Search execution with the internal results empty: never on leaving
\* DecideAction, RefineQuery or SearchWeb.
EndReachability ==
    /\ [][(NodeRan /\ pc = "search_web") => state.search_results # <<>>]_vars
    /\ [][(NodeRan /\ pc' = END /\ pc # "generate_answer") =>
            (pc = "search" /\ state'.search_results = <<>>)]_vars

\* a run allowed two or more iterations ended after its first Search,
\* whose retrieval call failed
EndReachabilityWitness ==
    /\ InRun
    /\ state.max_iterations >= 2
    /\ io.node = "search"
    /\ ~io.ok
    /\ state.search_results = <<>>
    /\ state.iteration = 0
    /\ pc = END

\* C26: the answer of the envelope query() returns is a text exactly when
\* the run executed GenerateAnswer; a run that ended without it returns the
\* envelope with answer unset.
AnswerPresence ==
    [](pc = "returned" =>
        /\ (result[1].answer # None) <=> (io.node = "generate_answer")
        /\ (io.node = "generate_answer") <=> (calls.generation = 1)
        /\ io.node # "generate_answer" => result[1].answer = None)

\* a run ended after a Search without results and returned no answer
AnswerPresenceWitness ==
    /\ pc = "returned"
    /\ io.node = "search"
    /\ calls.generation = 0
    /\ state.search_results = <<>>
    /\ result[1].answer = None
    /\ DOMAIN result[1] = EnvelopeFields

\* C27: a SearchWeb execution with web search disabled, or with no
\* web-search capability constructed, makes no web-search call and leaves
\* every field of AgentState as it was.
WebSearchNoOp ==
    [][(/\ NodeRan
        /\ pc = "search_web"
        /\ (~agent.enable_web_search \/ ~agent.web_search)) =>
        /\ io'.invoked = 0
        /\ calls'.web = calls.web
        /\ state' = state
      ]_vars

\* C28: no node execution changes question; only a RefineQuery execution
\* changes query; a RefineQuery execution does not raise, changes no field
\* other than query, leaves query as it was when the refine call fails,
\* and is followed by Search.
QueryRefinementFrame ==
    /\ [][NodeRan => state'.question = state.question]_vars
    /\ [][(NodeRan /\ state'.query # state.query) => pc = "refine_query"]_vars
    /\ [][(NodeRan /\ pc = "refine_query") =>
            /\ pc' = "search"
            /\ io'.invoked = 1
            /\ ~io'.ok => state'.query = state.query
            /\ state'.search_results = state.search_results
            /\ state'.web_results = state.web_results
            /\ state'.iteration = state.iteration
            /\ state'.answer = state.answer
            /\ state'.max_iterations = state.max_iterations
            /\ state'.needs_refinement = state.needs_refinement
            /\ state'.should_continue = state.should_continue
            /\ state'.use_web_search = state.use_web_search
         ]_vars

\* a step of the running execution that executes one node (a switch to
\* the other caller is not one)
OwnNodeStep == suspended' = suspended /\ steps' = steps + 1

\* C29: max_iterations of AgentState is the agent's value at the moment
\* query() built the state, and no node execution changes it, whatever the
\* other caller assigns to the agent meanwhile; the hard stop of
\* DecideAction and the router after Search and SearchWeb go by that value.
FixedBound ==
    /\ [][(pc = "idle" /\ pc' = "decide_action") =>
            state'.max_iterations = agent.max_iterations]_vars
    /\ [][NodeRan => state'.max_iterations = state.max_iterations]_vars
    /\ [][(pc' \in {"llm.invoke", "search_vietnamese_law"} /\ pc' # pc) =>
            state' = state]_vars
    /\ [][(NodeRan /\ pc \in {"decide_action", "llm.invoke"} /\ pc' # "raised") =>
            ((io'.invoked = 0 /\ ~state'.should_continue)
                <=> state.iteration >= state.max_iterations)]_vars
    /\ [][(NodeRan /\ pc \in {"search", "search_web", "search_vietnamese_law"}
            /\ state'.search_results # <<>>) =>
            pc' = IF state'.iteration < state.max_iterations
                  THEN "decide_action" ELSE "generate_answer"]_vars

\* a run that started with the bound 2 went on after its first iteration
\* although the other caller had meanwhile set the agent's max_iterations
\* to 1
FixedBoundWitness ==
    /\ io.node = "search"
    /\ pc = "decide_action"
    /\ state.iteration = 1
    /\ state.max_iterations = 2
    /\ agent.max_iterations = 1

\* C30: the web-search-enabled flag a node goes by is the agent's field at
\* the moment the node reads it: DecideAction selects web search only
\* while it is set, and SearchWeb calls the capability exactly when it is
\* set and the capability exists, and then completes the call whatever is
\* assigned while it waits.  An assignment by the other caller during a
\* run is therefore seen by the reads after it.
ConfigurationRace ==
    /\ [][(NodeRan /\ pc \in {"decide_action", "llm.invoke"} /\ pc' = "search_web") =>
            (agent.enable_web_search /\ state'.use_web_search)]_vars
    /\ [][(pc = "search_web" /\ pc' # pc) =>
            IF agent.enable_web_search /\ agent.web_search
            THEN pc' = "search_vietnamese_law" /\ ~NodeRan
            ELSE NodeRan /\ io'.invoked = 0]_vars
    /\ [][(pc = "search_vietnamese_law" /\ pc' # pc) =>
            NodeRan /\ io'.invoked = 1]_vars

\* one run saw two values of the flag: its DecideAction selected web search
\* while the flag was set, the other caller cleared the flag, and its
\* SearchWeb, with the capability constructed, did nothing
ConfigurationRaceWitness ==
    /\ io.node = "search_web"
    /\ io.invoked = 0
    /\ state.use_web_search
    /\ agent.web_search
    /\ ~agent.enable_web_search
    /\ calls.executed["search_web"] = 1

\* C31: a DecideAction execution issues at most one call to the decision
\* capability and no call to any other collaborator; on the hard stop
\* (iteration >= max_iterations), on the bootstrap (no results at all) and
\* on the web-search fallback it issues none and does not raise; the dict
\* the hard stop returns differs from the dict it was given in
\* should_continue only.
DecisionCallBudget ==
    [][(NodeRan /\ pc = "decide_action") =>
        LET hard == state.iteration >= state.max_iterations
            bootstrap == state.search_results = <<>> /\ state.web_results = <<>>
            fallback == /\ agent.enable_web_search
                        /\ state.iteration >= 2
                        /\ state.web_results = <<>>
                        /\ state.question = KeywordQuestion
        IN  /\ calls'.decision \in {calls.decision, calls.decision + 1}
            /\ calls'.decision = calls.decision + io'.invoked
            /\ \A c \in {"refine", "search", "web", "generation"} : calls'[c] = calls[c]
            /\ (hard \/ bootstrap \/ fallback) =>
                  /\ calls'.decision = calls.decision
                  /\ pc' # "raised"
            /\ hard =>
                  state' = AgentState(state, [state EXCEPT !.should_continue = FALSE])
      ]_vars

\* the hard stop ran on a state holding results and with both decision
\* flags set: no decision call, should_continue cleared, the flags still set
DecisionCallBudgetWitness ==
    /\ io.node = "decide_action"
    /\ io.invoked = 0
    /\ calls.decision = 0
    /\ state.iteration >= state.max_iterations
    /\ state.search_results # <<>>
    /\ ~state.should_continue
    /\ state.needs_refinement
    /\ state.use_web_search

\* C32: as long as every retrieval call of a run has returned and every
\* SearchWeb execution found the web search available, a run with
\* max_iterations = N has executed DecideAction at most N times, called
\* the decision capability at most N - 1 times, executed Search and
\* SearchWeb together at most N times, and executed at most 3N + 1 nodes.
BoundedWork ==
    (/\ InRun
     /\ calls.retrieved = calls.search + calls.web
     /\ calls.executed["search_web"] = calls.web) =>
        LET N == state.max_iterations
        IN  /\ N >= 1
            /\ calls.executed["decide_action"] <= N
            /\ calls.decision <= N - 1
            /\ calls.executed["search"] + calls.executed["search_web"] <= N
            /\ steps <= 3 * N + 1
            /\ steps = calls.executed["decide_action"] + calls.executed["refine_query"]
                       + calls.executed["search"] + calls.executed["search_web"]
                       + calls.executed["generate_answer"]

\* a run with max_iterations = 2 used all it may: two DecideAction
\* executions of which one asked the decision capability, a refinement,
\* two internal retrievals that both returned, and the answer
BoundedWorkWitness ==
    /\ pc = "returned"
    /\ state.max_iterations = 2
    /\ calls.executed["decide_action"] = 2
    /\ calls.decision = 1
    /\ calls.executed["refine_query"] = 1
    /\ calls.executed["search"] = 2
    /\ calls.retrieved = 2
    /\ calls.executed["generate_answer"] = 1
    /\ steps = 6

\* C33: in no state of a run are needs_refinement and use_web_search both
\* true; a DecideAction execution that returns with use_web_search true
\* found the agent's enable_web_search true; no other node writes either
\* flag.
DecisionFlagsExclusive ==
    /\ [](~(state.needs_refinement /\ state.use_web_search))
    /\ [][(OwnNodeStep /\ pc = "decide_action" /\ pc' # "raised"
            /\ state'.use_web_search) => agent.enable_web_search]_vars
    /\ [][(OwnNodeStep /\ pc # "decide_action") =>
            /\ state'.needs_refinement = state.needs_refinement
            /\ state'.use_web_search = state.use_web_search]_vars

\* a run set each flag in turn: DecideAction selected web search, SearchWeb
\* ran, and the next DecideAction selected refinement and cleared
\* use_web_search
DecisionFlagsExclusiveWitness ==
    /\ io.node = "decide_action"
    /\ pc = "refine_query"
    /\ state.needs_refinement
    /\ ~state.use_web_search
    /\ calls.executed["search_web"] = 1
    /\ calls.decision = 2

\* C34: the run of a request goes by the request's own max_iterations,
\* top_k and enable_web_search, and by the defaults (3, 3, and web search
\* enabled where the capability exists) for a field the request leaves
\* null, whatever the requests served before it asked for.
PerRequestConfiguration ==
    [][(pc = "idle" /\ pc' = "decide_action") =>
        LET request == io'.incoming[1]
        IN  /\ state'.max_iterations =
                  IF request.max_iterations # <<>> THEN request.max_iterations[1]
                  ELSE DEFAULT_MAX_ITERATIONS
            /\ agent'.top_k =
                  IF request.top_k # <<>> THEN request.top_k[1]
                  ELSE DEFAULT_TOP_K
            /\ agent'.enable_web_search =
                  IF request.enable_web_search # <<>> THEN request.enable_web_search[1]
                  ELSE agent.web_search
      ]_vars

\* C35: a GenerateAnswer execution leaves the accumulated internal and web
\* results as they were, so that the envelope returns the lists it found;
\* the grounding list it hands to the generation call holds one item for
\* every internal result and for every web result of type article or
\* answer, and none for a web result of any other type.
GenerateAnswerFrame ==
    /\ [][(NodeRan /\ pc = "generate_answer") =>
            /\ state'.search_results = state.search_results
            /\ state'.web_results = state.web_results
            /\ io'.invoked = 1 =>
                  /\ Len(io'.argument) = GroundingCount(state)
                  /\ \A i \in 1..Len(state.search_results) :
                        /\ io'.argument[i].source_type = "internal"
                        /\ io'.argument[i].body = state.search_results[i].text
                  /\ \A i \in 1..Len(WebGrounding(state)) :
                        LET item == io'.argument[Len(state.search_results) + i]
                        IN  /\ item.source_type = "web"
                            /\ item.body = WebGrounding(state)[i].content
         ]_vars
    /\ [][(pc = END /\ pc' = "returned") =>
            /\ result'[1].search_results = state.search_results
            /\ result'[1].web_results = state.web_results]_vars

====
